---------------------------- MODULE Spec2Model ----------------------------
(***************************************************************************)
(* A model of the crash-report extraction pipeline of doc-ai-extraction:   *)
(* the code dictionary (src/dictionary.py), the field tree normalizer, the *)
(* record reconstructor / workbook renderer and the page orchestrator      *)
(* (src/main.py, with the unit view of src/main-backup.py).                *)
(*                                                                         *)
(* Each component has its own specification (SpecLookup, SpecSection, ...) *)
(* over its own variables; the variables of the other components stay at   *)
(* their idle values.  Spec is the union of the component specifications.  *)
(***************************************************************************)
EXTENDS Integers, Sequences, FiniteSets, TLC

VARIABLES
    \* Dictionary.lookup: the call's arguments, its position, its return value
    lk_type, lk_code, lk_pc, lk_ret,
    \* _document_to_dict: document.text and document.entities of the OCR
    \* result, the call's position, the returned document_dict
    doc_text, doc_entities, dd_pc, document_dict,
    \* process_document_page_by_page: total_pages, the call's position, the
    \* future of each page, the futures as_completed has yielded, the
    \* processed_pages list, the returned full_document_result
    pg_total, pg_pc, pg_future, pg_yielded, processed_pages, full_document_result,
    \* save_excel_to_gcs, identification_location: the page number, the
    \* page's identification_location records, the call's position, the rows
    \* of the sheet written for each record
    addr_page_num, addr_locations, addr_pc, addr_sheets,
    \* extract_person_description: its arguments, the call's position, the
    \* rows it returns
    pd_child_num, pd_description, pd_pc, pd_child_rows,
    \* the unit view of main-backup.py: the page, the call's position, the
    \* worksheets written, one per vehicle unit
    ln_page, ln_pc, ln_worksheets,
    \* driver identification: the unit's person_num entries, the same entries
    \* permuted, the call's position, the results for the two orders
    dr_persons, dr_permuted, dr_pc, dr_processed, dr_people, dr_driver_name,
    \* the page tree: document.entities of the page with their properties,
    \* the position, the page's hierarchical_fields
    tr_entities, tr_pc, tr_hierarchical_fields,
    \* match_string_for_boolean: its arguments, the call's position, its
    \* return value
    cb_types, cb_string, cb_pc, cb_ret,
    \* the geocoded field of save_excel_to_gcs: the field's type and entry,
    \* the status and the number of results the geocoder would answer with,
    \* the position, the rows written, the exception in flight
    gc_child_type, gc_entry, gc_status, gc_results, gc_pc, gc_rows, gc_exception,
    \* sheet naming: the pages of a unit workbook (main-backup.py), the
    \* position, the workbook written; a page of the section workbook
    \* (main.py), the position, the workbook written
    sh_unit_pages, sh_unit_pc, sh_unit_book, sh_page, sh_pc, sh_book,
    \* page retry (main-backup1.py process_page_with_retry): the arguments
    \* of the enclosing call, the loop variable, the position, what has
    \* happened so far, and the outcome
    rt_max_retries, rt_retry_delay, rt_page_num, rt_attempt, rt_pc, rt_trace, rt_ret,
    \* a run of main's "Process Document" handler (main.py:1320-1372): what
    \* the outside will answer, the position, the blobs in storage, the
    \* errors shown, the session's flag and the pending exception
    mn_world, mn_pc, mn_storage, mn_errors, processing_complete, mn_exc,
    \* blob paths: the operation, its bucket, prefix and filename, the
    \* position and the path built
    bp_operation, bp_bucket_name, bp_prefix, bp_filename, bp_pc, full_blob_path,
    \* passenger order: the persons of a unit with their seat positions, the
    \* position and what process_person_data returned
    se_persons, se_pc, se_processed,
    \* the worker pool of process_document_page_by_page for many pages: the
    \* number of pages, the position of the submitting loop, the number of
    \* submits per page and the state of each page's future
    pl_total, pl_pc, pl_submits, pl_state,
    \* section assignment under a reordering of main_sections: the list,
    \* the entity type, the position and what the two passes found
    so_sections, so_entity_type, so_pc, so_ret,
    \* rendering of a section other than the locations and the units: what
    \* was rendered earlier in the call, twice over, the section, the
    \* position and the two outcomes
    ot_earlier, ot_parent_entity, ot_pc, ot_ret,
    \* two runs in one working directory: the pages of each run's document,
    \* each run's position, the files of the directory, what each run has
    \* sent to the OCR and uploaded, and the files of a run another run has
    \* written over or removed
    iso_total, iso_pc, iso_files, iso_sent, iso_uploaded, iso_harm,
    \* cleanup of the page files: what the outside will do, the position,
    \* the list page_files, the page files created, those on disk, those
    \* whose removal was attempted, the warnings, and the outcome
    cl_world, cl_pc, cl_page_files, cl_created, cl_on_disk, cl_attempted, cl_warnings, cl_ret

lookupVars == <<lk_type, lk_code, lk_pc, lk_ret>>

sectionVars == <<doc_text, doc_entities, dd_pc, document_dict>>

pageVars ==
    <<pg_total, pg_pc, pg_future, pg_yielded, processed_pages, full_document_result>>

addressVars == <<addr_page_num, addr_locations, addr_pc, addr_sheets>>

personVars == <<pd_child_num, pd_description, pd_pc, pd_child_rows>>

linkVars == <<ln_page, ln_pc, ln_worksheets>>

driverVars ==
    <<dr_persons, dr_permuted, dr_pc, dr_processed, dr_people, dr_driver_name>>

treeVars == <<tr_entities, tr_pc, tr_hierarchical_fields>>

checkboxVars == <<cb_types, cb_string, cb_pc, cb_ret>>

geocodeVars == <<gc_child_type, gc_entry, gc_status, gc_results, gc_pc, gc_rows, gc_exception>>

sheetsVars == <<sh_unit_pages, sh_unit_pc, sh_unit_book, sh_page, sh_pc, sh_book>>

retryVars == <<rt_max_retries, rt_retry_delay, rt_page_num, rt_attempt, rt_pc, rt_trace, rt_ret>>

runVars == <<mn_world, mn_pc, mn_storage, mn_errors, processing_complete, mn_exc>>

pathVars == <<bp_operation, bp_bucket_name, bp_prefix, bp_filename, bp_pc, full_blob_path>>

seatVars == <<se_persons, se_pc, se_processed>>

poolVars == <<pl_total, pl_pc, pl_submits, pl_state>>

orderVars == <<so_sections, so_entity_type, so_pc, so_ret>>

otherVars == <<ot_earlier, ot_parent_entity, ot_pc, ot_ret>>

runsVars == <<iso_total, iso_pc, iso_files, iso_sent, iso_uploaded, iso_harm>>

cleanupVars == <<cl_world, cl_pc, cl_page_files, cl_created, cl_on_disk, cl_attempted, cl_warnings, cl_ret>>

(***************************************************************************)
(* Python values.  A str is kept apart from None by a tag, so that "the    *)
(* function returns a string" is a statement about the value and the label *)
(* "None" of a table is not the value None.                                *)
(***************************************************************************)
PyStr(s) == [py |-> "str", s |-> s]

PyNone == [py |-> "NoneType", s |-> ""]

\* A name that holds no value yet (a call that has not returned).
PyUnset == [py |-> "unset", s |-> ""]

IsStr(v) == v.py = "str"

(***************************************************************************)
(* The idle values of each component's variables: what they hold while     *)
(* another component's specification runs.                                 *)
(***************************************************************************)
vars ==
    <<lookupVars, sectionVars, pageVars, addressVars, personVars, linkVars,
      driverVars, treeVars, checkboxVars, geocodeVars, sheetsVars,
      retryVars, runVars, pathVars, seatVars, poolVars, orderVars,
      otherVars, runsVars, cleanupVars>>

\* What an action of one component leaves alone: the other components.
lookupFrame ==
    <<sectionVars, pageVars, addressVars, personVars, linkVars, driverVars,
      treeVars, checkboxVars, geocodeVars, sheetsVars, retryVars, runVars,
      pathVars, seatVars, poolVars, orderVars, otherVars, runsVars,
      cleanupVars>>

sectionFrame ==
    <<lookupVars, pageVars, addressVars, personVars, linkVars, driverVars,
      treeVars, checkboxVars, geocodeVars, sheetsVars, retryVars, runVars,
      pathVars, seatVars, poolVars, orderVars, otherVars, runsVars,
      cleanupVars>>

pageFrame ==
    <<lookupVars, sectionVars, addressVars, personVars, linkVars,
      driverVars, treeVars, checkboxVars, geocodeVars, sheetsVars,
      retryVars, runVars, pathVars, seatVars, poolVars, orderVars,
      otherVars, runsVars, cleanupVars>>

addressFrame ==
    <<lookupVars, sectionVars, pageVars, personVars, linkVars, driverVars,
      treeVars, checkboxVars, geocodeVars, sheetsVars, retryVars, runVars,
      pathVars, seatVars, poolVars, orderVars, otherVars, runsVars,
      cleanupVars>>

personFrame ==
    <<lookupVars, sectionVars, pageVars, addressVars, linkVars, driverVars,
      treeVars, checkboxVars, geocodeVars, sheetsVars, retryVars, runVars,
      pathVars, seatVars, poolVars, orderVars, otherVars, runsVars,
      cleanupVars>>

linkFrame ==
    <<lookupVars, sectionVars, pageVars, addressVars, personVars,
      driverVars, treeVars, checkboxVars, geocodeVars, sheetsVars,
      retryVars, runVars, pathVars, seatVars, poolVars, orderVars,
      otherVars, runsVars, cleanupVars>>

driverFrame ==
    <<lookupVars, sectionVars, pageVars, addressVars, personVars, linkVars,
      treeVars, checkboxVars, geocodeVars, sheetsVars, retryVars, runVars,
      pathVars, seatVars, poolVars, orderVars, otherVars, runsVars,
      cleanupVars>>

treeFrame ==
    <<lookupVars, sectionVars, pageVars, addressVars, personVars, linkVars,
      driverVars, checkboxVars, geocodeVars, sheetsVars, retryVars,
      runVars, pathVars, seatVars, poolVars, orderVars, otherVars,
      runsVars, cleanupVars>>

checkboxFrame ==
    <<lookupVars, sectionVars, pageVars, addressVars, personVars, linkVars,
      driverVars, treeVars, geocodeVars, sheetsVars, retryVars, runVars,
      pathVars, seatVars, poolVars, orderVars, otherVars, runsVars,
      cleanupVars>>

geocodeFrame ==
    <<lookupVars, sectionVars, pageVars, addressVars, personVars, linkVars,
      driverVars, treeVars, checkboxVars, sheetsVars, retryVars, runVars,
      pathVars, seatVars, poolVars, orderVars, otherVars, runsVars,
      cleanupVars>>

sheetsFrame ==
    <<lookupVars, sectionVars, pageVars, addressVars, personVars, linkVars,
      driverVars, treeVars, checkboxVars, geocodeVars, retryVars, runVars,
      pathVars, seatVars, poolVars, orderVars, otherVars, runsVars,
      cleanupVars>>

retryFrame ==
    <<lookupVars, sectionVars, pageVars, addressVars, personVars, linkVars,
      driverVars, treeVars, checkboxVars, geocodeVars, sheetsVars, runVars,
      pathVars, seatVars, poolVars, orderVars, otherVars, runsVars,
      cleanupVars>>

runFrame ==
    <<lookupVars, sectionVars, pageVars, addressVars, personVars, linkVars,
      driverVars, treeVars, checkboxVars, geocodeVars, sheetsVars,
      retryVars, pathVars, seatVars, poolVars, orderVars, otherVars,
      runsVars, cleanupVars>>

pathFrame ==
    <<lookupVars, sectionVars, pageVars, addressVars, personVars, linkVars,
      driverVars, treeVars, checkboxVars, geocodeVars, sheetsVars,
      retryVars, runVars, seatVars, poolVars, orderVars, otherVars,
      runsVars, cleanupVars>>

seatFrame ==
    <<lookupVars, sectionVars, pageVars, addressVars, personVars, linkVars,
      driverVars, treeVars, checkboxVars, geocodeVars, sheetsVars,
      retryVars, runVars, pathVars, poolVars, orderVars, otherVars,
      runsVars, cleanupVars>>

poolFrame ==
    <<lookupVars, sectionVars, pageVars, addressVars, personVars, linkVars,
      driverVars, treeVars, checkboxVars, geocodeVars, sheetsVars,
      retryVars, runVars, pathVars, seatVars, orderVars, otherVars,
      runsVars, cleanupVars>>

orderFrame ==
    <<lookupVars, sectionVars, pageVars, addressVars, personVars, linkVars,
      driverVars, treeVars, checkboxVars, geocodeVars, sheetsVars,
      retryVars, runVars, pathVars, seatVars, poolVars, otherVars,
      runsVars, cleanupVars>>

otherFrame ==
    <<lookupVars, sectionVars, pageVars, addressVars, personVars, linkVars,
      driverVars, treeVars, checkboxVars, geocodeVars, sheetsVars,
      retryVars, runVars, pathVars, seatVars, poolVars, orderVars,
      runsVars, cleanupVars>>

runsFrame ==
    <<lookupVars, sectionVars, pageVars, addressVars, personVars, linkVars,
      driverVars, treeVars, checkboxVars, geocodeVars, sheetsVars,
      retryVars, runVars, pathVars, seatVars, poolVars, orderVars,
      otherVars, cleanupVars>>

cleanupFrame ==
    <<lookupVars, sectionVars, pageVars, addressVars, personVars, linkVars,
      driverVars, treeVars, checkboxVars, geocodeVars, sheetsVars,
      retryVars, runVars, pathVars, seatVars, poolVars, orderVars,
      otherVars, runsVars>>

LookupIdle ==
    /\ lk_type = ""
    /\ lk_code = ""
    /\ lk_pc = "idle"
    /\ lk_ret = PyUnset

SectionIdle ==
    /\ doc_text = ""
    /\ doc_entities = <<>>
    /\ dd_pc = "idle"
    /\ document_dict = [text |-> "", sections |-> <<>>]

PagesIdle ==
    /\ pg_total = 0
    /\ pg_pc = "idle"
    /\ pg_future = <<>>
    /\ pg_yielded = {}
    /\ processed_pages = <<>>
    /\ full_document_result = [text |-> "", pages |-> <<>>]

AddressIdle ==
    /\ addr_page_num = 0
    /\ addr_locations = <<>>
    /\ addr_pc = "idle"
    /\ addr_sheets = <<>>

PersonIdle ==
    /\ pd_child_num = 0
    /\ pd_description = <<>>
    /\ pd_pc = "idle"
    /\ pd_child_rows = <<>>

LinkIdle ==
    /\ ln_page = [hierarchical_fields |-> <<>>]
    /\ ln_pc = "idle"
    /\ ln_worksheets = <<>>

DriverIdle ==
    /\ dr_persons = <<>>
    /\ dr_permuted = <<>>
    /\ dr_pc = "idle"
    /\ dr_processed = <<>>
    /\ dr_people = <<>>
    /\ dr_driver_name = <<>>

TreeIdle ==
    /\ tr_entities = <<>>
    /\ tr_pc = "idle"
    /\ tr_hierarchical_fields = <<>>
CheckboxIdle ==
    /\ cb_types = ""
    /\ cb_string = <<>>
    /\ cb_pc = "idle"
    /\ cb_ret = PyUnset
GeocodeIdle ==
    /\ gc_child_type = ""
    /\ gc_entry = <<>>
    /\ gc_status = 0
    /\ gc_results = 0
    /\ gc_pc = "idle"
    /\ gc_rows = <<>>
    /\ gc_exception = ""
SheetsIdle ==
    /\ sh_unit_pages = <<>>
    /\ sh_unit_pc = "idle"
    /\ sh_unit_book = <<>>
    /\ sh_page = <<>>
    /\ sh_pc = "idle"
    /\ sh_book = <<>>
RetryIdle ==
    /\ rt_max_retries = 0
    /\ rt_retry_delay = 0
    /\ rt_page_num = 0
    /\ rt_attempt = 0
    /\ rt_pc = "idle"
    /\ rt_trace = <<>>
    /\ rt_ret = <<>>
RunIdle ==
    /\ mn_world = <<>>
    /\ mn_pc = "idle"
    /\ mn_storage = {}
    /\ mn_errors = <<>>
    /\ processing_complete = FALSE
    /\ mn_exc = ""
PathIdle ==
    /\ bp_operation = ""
    /\ bp_bucket_name = <<>>
    /\ bp_prefix = <<>>
    /\ bp_filename = <<>>
    /\ bp_pc = "idle"
    /\ full_blob_path = <<>>
SeatIdle ==
    /\ se_persons = <<>>
    /\ se_pc = "idle"
    /\ se_processed = <<>>
PoolIdle ==
    /\ pl_total = 0
    /\ pl_pc = "idle"
    /\ pl_submits = <<>>
    /\ pl_state = <<>>
OrderIdle ==
    /\ so_sections = <<>>
    /\ so_entity_type = <<>>
    /\ so_pc = "idle"
    /\ so_ret = <<>>
OtherIdle ==
    /\ ot_earlier = <<>>
    /\ ot_parent_entity = <<>>
    /\ ot_pc = "idle"
    /\ ot_ret = <<>>
RunsIdle ==
    /\ iso_total = <<>>
    /\ iso_pc = <<>>
    /\ iso_files = <<>>
    /\ iso_sent = <<>>
    /\ iso_uploaded = <<>>
    /\ iso_harm = {}
CleanupIdle ==
    /\ cl_world = <<>>
    /\ cl_pc = "idle"
    /\ cl_page_files = <<>>
    /\ cl_created = {}
    /\ cl_on_disk = {}
    /\ cl_attempted = {}
    /\ cl_warnings = {}
    /\ cl_ret = <<>>

(***************************************************************************)
(* The code tables of src/dictionary.py.  A table is the set of its items; *)
(* an item carries the Python type of its key, because dict.get(code) with *)
(* a str code never finds an int key.  The tables that Dictionary.lookup   *)
(* never reaches (the *_skip methods) are left out.  The two labels of     *)
(* entering_roads written with an en dash are written with "-".            *)
(***************************************************************************)
StrKey(k, label) == [kt |-> "str", k |-> k, label |-> label]

IntKey(k, label) == [kt |-> "int", k |-> k, label |-> label]

\* dictionary.py:110-133, the table of Dictionary.roadway_system (its method returns table.get(code)).
roadway_system ==
    { StrKey("IH", "Interstate"),
      StrKey("US", "US Highway"),
      StrKey("SH", "State Highway"),
      StrKey("FM", "Farm to Market"),
      StrKey("RR", "Ranch Road"),
      StrKey("RM", "Ranch to Market"),
      StrKey("BI", "Business Interstate"),
      StrKey("BU", "Business US"),
      StrKey("BS", "Business State"),
      StrKey("BF", "Business FM"),
      StrKey("SL", "State Loop"),
      StrKey("TL", "Toll Road"),
      StrKey("AL", "Alternate"),
      StrKey("SP", "Spur"),
      StrKey("CR", "County Road"),
      StrKey("PR", "Park Road"),
      StrKey("PV", "Private Road"),
      StrKey("RC", "Recreational Road"),
      StrKey("LR", "Local Road/Street") }

\* dictionary.py:135-145, the table of Dictionary.roadway_part (its method returns table.get(code)).
roadway_part ==
    { StrKey("1", "Main/Proper Lane"),
      StrKey("2", "Service/Frontage Road"),
      StrKey("3", "Entrance/On Ramp"),
      StrKey("4", "Exit/Off Ramp"),
      StrKey("5", "Connector/Flyover"),
      StrKey("98", "Other (Explain in Narrative)") }

\* dictionary.py:147-159, the table of Dictionary.direction (its method returns table.get(code)).
direction ==
    { StrKey("N", "North"),
      StrKey("E", "East"),
      StrKey("S", "South"),
      StrKey("W", "West"),
      StrKey("NE", "Northeast"),
      StrKey("SE", "Southeast"),
      StrKey("SW", "Southwest"),
      StrKey("NW", "Northwest") }

\* dictionary.py:161-186, the table of Dictionary.street_suffix (its method returns table.get(code)).
street_suffix ==
    { StrKey("RD", "Road"),
      StrKey("ST", "Street"),
      StrKey("DR", "Drive"),
      StrKey("AVE", "Avenue"),
      StrKey("BLVD", "Boulevard"),
      StrKey("PKWY", "Parkway"),
      StrKey("LN", "Lane"),
      StrKey("FWY", "Freeway"),
      StrKey("HWY", "Highway"),
      StrKey("WAY", "Way"),
      StrKey("TRL", "Trail"),
      StrKey("LOOP", "Loop"),
      StrKey("EXPY", "Expressway"),
      StrKey("CT", "Court"),
      StrKey("CIR", "Circle"),
      StrKey("PL", "Place"),
      StrKey("PARK", "Park"),
      StrKey("CV", "Cove"),
      StrKey("PATH", "Path"),
      StrKey("TRC", "Trace"),
      StrKey("PT", "Point") }

\* dictionary.py:188-200, the table of Dictionary.unit_description (its method returns table.get(code)).
unit_description ==
    { StrKey("1", "Motor Vehicle"),
      StrKey("2", "Train"),
      StrKey("3", "Pedalcyclist"),
      StrKey("4", "Pedestrian"),
      StrKey("5", "Motorized Conveyance"),
      StrKey("6", "Towed/Pushed/Trailer"),
      StrKey("7", "Non-Contact"),
      StrKey("98", "Other") }

\* dictionary.py:202-230, the table of Dictionary.vehicle_color (its method returns table.get(code)).
vehicle_color ==
    { StrKey("BGE", "Beige"),
      StrKey("BLK", "Black"),
      StrKey("BLU", "Blue"),
      StrKey("BRZ", "Bronze"),
      StrKey("BRO", "Brown"),
      StrKey("CAM", "Camouflage"),
      StrKey("CPR", "Copper"),
      StrKey("GLD", "Gold"),
      StrKey("GRY", "Gray"),
      StrKey("GRN", "Green"),
      StrKey("MAR", "Maroon"),
      StrKey("MUL", "Multicolored"),
      StrKey("ONG", "Orange"),
      StrKey("PNK", "Pink"),
      StrKey("PLE", "Purple"),
      StrKey("RED", "Red"),
      StrKey("SIL", "Silver"),
      StrKey("TAN", "Tan"),
      StrKey("TEA", "Teal(green)"),
      StrKey("TRQ", "Turquoise (blue)"),
      StrKey("WHI", "White"),
      StrKey("YEL", "Yellow"),
      StrKey("98", "Other"),
      StrKey("99", "Unknown") }

\* dictionary.py:232-256, the table of Dictionary.body_style (its method returns table.get(code)).
body_style ==
    { StrKey("PC", "Police Car/Truck"),
      StrKey("PM", "Police Motorcycle"),
      StrKey("TL", "Trailer, Semi-Trailer, or Pole Trailer"),
      StrKey("TR", "Truck"),
      StrKey("TT", "Truck Tractor"),
      StrKey("VN", "Van"),
      StrKey("EV", "Neighborhood"),
      StrKey("P2", "Passenger Car, 2-Door"),
      StrKey("P4", "Passenger Car, 4-Door"),
      StrKey("PK", "Pickup"),
      StrKey("AM", "Ambulance"),
      StrKey("BU", "Bus"),
      StrKey("SB", "Yellow School Bus"),
      StrKey("SBO", "School Bus Other"),
      StrKey("FE", "Farm Equipment"),
      StrKey("FT", "Fire Truck"),
      StrKey("MC", "Motorcycle"),
      StrKey("SV", "Sport Utility Vehicle"),
      StrKey("98", "Other (Explain Vehicle in Narrative)"),
      StrKey("99", "Unknown") }

\* dictionary.py:258-265, the table of Dictionary.autonomous_unit (its method returns table.get(code)).
autonomous_unit ==
    { StrKey("1", "Yes"),
      StrKey("2", "No"),
      StrKey("99", "Unknown") }

\* dictionary.py:267-279, the table of Dictionary.autonomous_level_engine (its method returns table.get(code)).
autonomous_level_engine ==
    { StrKey("0", "No Automation"),
      StrKey("1", "Driver Assistance"),
      StrKey("2", "Partial Automation"),
      StrKey("3", "Conditional Automation"),
      StrKey("4", "High Automation"),
      StrKey("5", "Full Automation"),
      StrKey("6", "Automation Level Unknown"),
      StrKey("99", "Unknown") }

\* dictionary.py:281-293, the first def of Dictionary.driver_license; the class body binds the
\* name again at a later def, so no call reaches this table.
driver_license_shadowed ==
    { StrKey("1", "Driver License"),
      StrKey("2", "Commercial Driver Lic."),
      StrKey("3", "Occupational"),
      StrKey("4", "ID Card"),
      StrKey("5", "Unlicensed"),
      StrKey("95", "Autonomous"),
      StrKey("98", "Other"),
      StrKey("99", "Unknown") }

\* dictionary.py:329-403, the table of Dictionary.driver_license (its method returns table.get(code)).
driver_license ==
    { StrKey("A", "With corrective lenses"),
      StrKey("B", "LOFS 21 or over"),
      StrKey("C", "Daytime driving only"),
      StrKey("D", "Speed not to exceed 45 mph"),
      StrKey("E", "No manual transmission equipped CMV"),
      StrKey("F", "Must hold valid learner lic. to MM/DD/YY"),
      StrKey("G", "TRC 545.424 applies until MM/DD/YY"),
      StrKey("H", "Vehicle not to exceed 26,000 lbs GVWR"),
      StrKey("I", "MC not to exceed 250cc"),
      StrKey("J", "Licensed MC operator 21 or over in sight"),
      StrKey("K", "Intrastate only"),
      StrKey("L", "No air brake equipped CMV"),
      StrKey("M", "No Class A passenger vehicle"),
      StrKey("N", "No Class A and B passenger vehicle"),
      StrKey("O", "No tractor-trailer CMV"),
      StrKey("Q", "LOFS 21 or over vehicle above Class B"),
      StrKey("R", "LOFS 21 or over vehicle above Class C"),
      StrKey("S", "Outside rearview mirror or hearing aid"),
      StrKey("T", "Automatic transmission"),
      StrKey("U", "Applicable prosthetic devices"),
      StrKey("V", "Medical Variance"),
      StrKey("W", "Power steering"),
      StrKey("X", "No cargo in CMV tank vehicle"),
      StrKey("Y", "Valid TX vision or limb waiver required"),
      StrKey("Z", "No full air brake equipped CMV"),
      StrKey("P1", "For Class M TRC 545.424 until MM/DD/YY"),
      StrKey("P2", "To/from work/school"),
      StrKey("P3", "To/from work"),
      StrKey("P4", "To/from school"),
      StrKey("P5", "To/from work/school or LOFS 21 or over"),
      StrKey("P6", "To/from work or LOFS 21 or over"),
      StrKey("P7", "To/from school or LOFS 21 or over"),
      StrKey("P8", "With telescopic lens"),
      StrKey("P9", "LOFS 21 or over bus only"),
      StrKey("P10", "LOFS 21 or over school bus only"),
      StrKey("P11", "Bus not to exceed 26,000 lbs GVWR"),
      StrKey("P12", "Passenger CMVs restrict to Class C only"),
      StrKey("P13", "LOFS 21 or over in veh equip w/airbrake"),
      StrKey("P14", "Operation Class B exempt veh authorized"),
      StrKey("P15", "Operation Class A exempt veh authorized"),
      StrKey("P16", "If CMV, school buses interstate"),
      StrKey("P17", "If CMV, government vehicles interstate"),
      StrKey("P18", "If CMV, only trans personal prop interstate"),
      StrKey("P19", "If CMV, trans corpse/sick/injured interstate"),
      StrKey("P20", "If CMV, privately trans passengers interstate"),
      StrKey("P21", "If CMV, fire/rescue interstate"),
      StrKey("P22", "If CMV, intra-city zone drivers interstate"),
      StrKey("P23", "If CMV, custom-harvesting interstate"),
      StrKey("P24", "If CMV, transporting bees/hives interstate"),
      StrKey("P25", "If CMV, use in oil/water well service/drill"),
      StrKey("P26", "If CMV, for operation of mobile crane"),
      StrKey("P27", "HME Expiration Date MM/DD/YY"),
      StrKey("P28", "FRSI CDL valid MM/DD/YY to MM/DD/YY"),
      StrKey("P29", "FRSI CDL MM/DD/YY - MM/DD/YY or exempt B veh"),
      StrKey("P30", "FRSI CDL MM/DD/YY - MM/DD/YY or exempt A veh"),
      StrKey("P31", "Class C only - no taxi/bus/emergency veh"),
      StrKey("P32", "Other"),
      StrKey("P33", "No passengers in CMV bus"),
      StrKey("P34", "No express or highway driving"),
      StrKey("P35", "Restricted to operation of three-wheeled MC"),
      StrKey("P36", "Moped"),
      StrKey("P37", "Occ/Essent need DL-no CMV-see court order"),
      StrKey("P38", "Applicable vehicle devices"),
      StrKey("P39", "Ignition Interlock required"),
      StrKey("P40", "Vehicle not to exceed Class C"),
      StrKey("5", "Unlicensed"),
      StrKey("95", "Autonomous"),
      StrKey("96", "None"),
      StrKey("98", "Other/Out of State"),
      StrKey("99", "Unknown") }

\* dictionary.py:295-310, the table of Dictionary.driver_license_class (its method returns table.get(code)).
driver_license_class ==
    { StrKey("A", "Class A"),
      StrKey("AM", "Class A and M"),
      StrKey("B", "Class B"),
      StrKey("BM", "Class B and M"),
      StrKey("C", "Class C"),
      StrKey("CM", "Class C and M"),
      StrKey("M", "Class M"),
      StrKey("5", "Unlicensed"),
      StrKey("95", "Autonomous"),
      StrKey("98", "Other/Out of State"),
      StrKey("99", "Unknown") }

\* dictionary.py:405-418, the table of Dictionary.person_type (its method returns table.get(code)).
person_type ==
    { StrKey("1", "Driver"),
      StrKey("2", "Passenger/Occupant"),
      StrKey("3", "Pedalcyclist"),
      StrKey("4", "Pedestrian"),
      StrKey("5", "Driver of Motorcycle Type Vehicle"),
      StrKey("6", "Passenger/Occupant on Motorcycle Type Vehicle"),
      StrKey("95", "Autonomous"),
      StrKey("98", "Other (Explain in Narrative)"),
      StrKey("99", "Unknown") }

\* dictionary.py:420-441, the table of Dictionary.seat_position (its method returns table.get(code)).
seat_position ==
    { StrKey("1", "Front Left or Motorcycle Driver"),
      StrKey("2", "Front Center or Motorcycle Sidecar Passenger"),
      StrKey("3", "Front Right"),
      StrKey("4", "Second Seat Left or Motorcycle Back Passenger"),
      StrKey("5", "Second Seat Center"),
      StrKey("6", "Second Seat Right"),
      StrKey("7", "Third Seat Left"),
      StrKey("8", "Third Seat Center"),
      StrKey("9", "Third Seat Right"),
      StrKey("10", "Cargo Area"),
      StrKey("11", "Outside Vehicle"),
      StrKey("13", "Other in Vehicle"),
      StrKey("14", "Passenger in Bus"),
      StrKey("16", "Pedestrian, Pedalcyclist, or Motorized Conveyance"),
      StrKey("95", "Autonomous"),
      StrKey("98", "Other (Explain in Narrative)"),
      StrKey("99", "Unknown") }

\* dictionary.py:443-454, the table of Dictionary.injury_severity (its method returns table.get(code)).
injury_severity ==
    { StrKey("A", "Suspected Serious Injury"),
      StrKey("B", "Suspected Minor Injury"),
      StrKey("C", "Possible Injury"),
      StrKey("K", "Fatal Injury"),
      StrKey("N", "Not Injured"),
      StrKey("95", "Autonomous"),
      StrKey("99", "Unknown") }

\* dictionary.py:456-468, the table of Dictionary.ethnicity (its method returns table.get(code)).
ethnicity ==
    { StrKey("W", "White"),
      StrKey("B", "Black"),
      StrKey("H", "Hispanic"),
      StrKey("A", "Asian"),
      StrKey("I", "Amer. Indian/Alaskan Native"),
      StrKey("95", "Autonomous"),
      StrKey("98", "Other"),
      StrKey("99", "Unknown") }

\* dictionary.py:470-478, the table of Dictionary.sex (its method returns table.get(code)).
sex ==
    { StrKey("1", "Male"),
      StrKey("2", "Female"),
      StrKey("95", "Autonomous"),
      StrKey("99", "Unknown") }

\* dictionary.py:480-489, the table of Dictionary.ejected (its method returns table.get(code)).
ejected ==
    { StrKey("1", "No"),
      StrKey("2", "Yes"),
      StrKey("3", "Yes, Partial"),
      StrKey("97", "Not Applicable"),
      StrKey("99", "Unknown") }

\* dictionary.py:491-506, the table of Dictionary.restraint (its method returns table.get(code)).
restraint ==
    { StrKey("1", "Shoulder and Lap Belt"),
      StrKey("2", "Shoulder Belt Only"),
      StrKey("3", "Lap Belt Only"),
      StrKey("4", "Child Seat, Facing Forward"),
      StrKey("5", "Child Seat, Facing Rear"),
      StrKey("6", "Child Seat, Unknown"),
      StrKey("7", "Child Booster Seat"),
      StrKey("96", "None"),
      StrKey("97", "Not Applicable"),
      StrKey("98", "Other (Explain in Narrative)"),
      StrKey("99", "Unknown") }

\* dictionary.py:508-519, the table of Dictionary.airbag (its method returns table.get(code)).
airbag ==
    { StrKey("1", "Not Deployed"),
      StrKey("2", "Deployed, Front"),
      StrKey("3", "Deployed, Side"),
      StrKey("4", "Deployed, Rear"),
      StrKey("5", "Deployed, Multiple"),
      StrKey("97", "Not Applicable"),
      StrKey("99", "Unknown") }

\* dictionary.py:521-531, the table of Dictionary.helmet (its method returns table.get(code)).
helmet ==
    { StrKey("1", "Not Worn"),
      StrKey("2", "Worn, Damaged"),
      StrKey("3", "Worn, Not Damaged"),
      StrKey("4", "Worn, Unk. Damage"),
      StrKey("97", "Not Applicable"),
      StrKey("99", "Unknown if Worn") }

\* dictionary.py:533-539, the table of Dictionary.solicitation (its method returns table.get(code)).
solicitation ==
    { StrKey("Y", "Solicit"),
      StrKey("N", "No Solicit") }

\* dictionary.py:541-551, the table of Dictionary.alc_spec (its method returns table.get(code)).
alc_spec ==
    { StrKey("1", "Breath"),
      StrKey("2", "Blood"),
      StrKey("3", "Urine"),
      StrKey("4", "Refused"),
      StrKey("96", "None"),
      StrKey("98", "Other (Explain in Narrative)") }

\* dictionary.py:553-563, the table of Dictionary.drug_spec (its method returns table.get(code)).
drug_spec ==
    { StrKey("1", "Breath"),
      StrKey("2", "Blood"),
      StrKey("3", "Urine"),
      StrKey("4", "Refused"),
      StrKey("96", "None"),
      StrKey("98", "Other (Explain in Narrative)") }

\* dictionary.py:565-573, the table of Dictionary.drug_result (its method returns table.get(code)).
drug_result ==
    { StrKey("1", "Positive"),
      StrKey("2", "Negative"),
      StrKey("97", "Not Applicable"),
      StrKey("99", "Unknown") }

\* dictionary.py:575-591, the table of Dictionary.drug_category (its method returns table.get(code)).
drug_category ==
    { StrKey("1", "Liability Insurance Policy"),
      StrKey("2", "CNS Depressants"),
      StrKey("3", "CNS Stimulants"),
      StrKey("4", "Hallucinogens"),
      StrKey("6", "Narcotic Analgesics"),
      StrKey("7", "Inhalants"),
      StrKey("8", "Cannabis"),
      StrKey("10", "Dissociative Anesthetics"),
      StrKey("11", "Multiple Drugs (Explain in Narrative)"),
      StrKey("97", "Not Applicable"),
      StrKey("98", "Other Drugs (Explain in Narrative)"),
      StrKey("99", "Unknown") }

\* dictionary.py:593-604, the table of Dictionary.fin_resp_type (its method returns table.get(code)).
fin_resp_type ==
    { StrKey("1", "Liability Insurance Policy"),
      StrKey("2", "Proof of Liability Insurance"),
      StrKey("3", "Insurance Binder"),
      StrKey("4", "Surety Bond"),
      StrKey("5", "Certificate of Deposit with Comptroller"),
      StrKey("6", "Certificate of Deposit with County Judge"),
      StrKey("7", "Certificate of Self-Insurance") }

\* dictionary.py:606-616, the table of Dictionary.vehicle_damage_rate (its method returns table.get(code)).
vehicle_damage_rate ==
    { StrKey("VB-1", "vehicle burned, NOT due to collision"),
      StrKey("VB-7", "vehicle catches fire due to the collision"),
      StrKey("TP-0", "top damage"),
      StrKey("VX-0", "undercarriage damage"),
      StrKey("MC-1", "motorcycle, moped, scooter, etc."),
      StrKey("NA", "Not Applicable (Farm Tractor, etc.)") }

\* dictionary.py:728-742, the table of Dictionary.weather_condition (its method returns table.get(code)).
weather_condition ==
    { StrKey("1", "Clear"),
      StrKey("2", "Cloudy"),
      StrKey("3", "Rain"),
      StrKey("4", "Sleet/Hail"),
      StrKey("5", "Snow"),
      StrKey("6", "Fog"),
      StrKey("7", "Blowing Sand/Snow"),
      StrKey("8", "Severe Crosswinds"),
      StrKey("98", "Other (Explain in Narrative)"),
      StrKey("99", "Unknown") }

\* dictionary.py:744-756, the table of Dictionary.light_condition (its method returns table.get(code)).
light_condition ==
    { StrKey("1", "Daylight"),
      StrKey("2", "Dark, Not Lighted"),
      StrKey("3", "Dark, Lighted"),
      StrKey("4", "Dark, Unknown Lighting"),
      StrKey("5", "Dawn"),
      StrKey("6", "Dusk"),
      StrKey("98", "Other (Explain in Narrative)"),
      StrKey("99", "Unknown") }

\* dictionary.py:758-771, the table of Dictionary.entering_roads (its method returns table.get(code)).
entering_roads ==
    { StrKey("2", "Three Entering Roads - T"),
      StrKey("3", "Three Entering Roads - Y"),
      StrKey("4", "Four Entering Roads"),
      StrKey("5", "Five Entering Roads"),
      StrKey("6", "Six Entering Roads"),
      StrKey("7", "Traffic Circle"),
      StrKey("8", "Cloverleaf"),
      StrKey("97", "Not Applicable"),
      StrKey("98", "Other (Explain in Narrative)") }

\* dictionary.py:773-782, the table of Dictionary.roadway_type (its method returns table.get(code)).
roadway_type ==
    { StrKey("1", "Two-Way, Not Divided"),
      StrKey("2", "Two-Way, Divided, Unprotected Median"),
      StrKey("3", "Two-Way, Divided, Protected Median"),
      StrKey("4", "One-Way"),
      StrKey("98", "Other (Explain in Narrative)") }

\* dictionary.py:784-796, the table of Dictionary.roadway_alignment (its method returns table.get(code)).
roadway_alignment ==
    { StrKey("1", "Straight, Level"),
      StrKey("2", "Straight, Grade"),
      StrKey("3", "Straight, Hillcrest"),
      StrKey("4", "Curve, Level"),
      StrKey("5", "Curve, Grade"),
      StrKey("6", "Curve, Hillcrest"),
      StrKey("98", "Other (Explain in Narrative)"),
      StrKey("99", "Unknown") }

\* dictionary.py:798-811, the table of Dictionary.surface_condition (its method returns table.get(code)).
surface_condition ==
    { StrKey("1", "Dry"),
      StrKey("2", "Wet"),
      StrKey("3", "Standing Water"),
      StrKey("4", "Snow"),
      StrKey("5", "Slush"),
      StrKey("6", "Ice"),
      StrKey("7", "Sand, Mud, Dirt"),
      StrKey("98", "Other (Explain in Narrative)"),
      StrKey("99", "Unknown") }

\* dictionary.py:813-835, the table of Dictionary.traffic_conntrol (its method returns table.get(code)).
traffic_conntrol ==
    { StrKey("2", "Inoperative (Explain in Narrative)"),
      StrKey("3", "Officer"),
      StrKey("4", "Flagman"),
      StrKey("5", "Signal Light"),
      StrKey("6", "Flashing Red Light"),
      StrKey("7", "Flashing Yellow Light"),
      StrKey("8", "Stop Sign"),
      StrKey("9", "Yield Sign"),
      StrKey("10", "Warning Sign"),
      StrKey("11", "Center Stripe/Divider"),
      StrKey("12", "No Passing Zone"),
      StrKey("13", "RR Gate/Signal"),
      StrKey("15", "Crosswalk"),
      StrKey("16", "Bike Lane"),
      StrKey("17", "Marked Lanes"),
      StrKey("18", "Signal Light With Red Light Running Camera"),
      StrKey("96", "None"),
      StrKey("98", "Other (Explain in Narrative)") }

\* dictionary.py:837-911, the table of Dictionary.factor_n_condition (its method returns table.get(code)).
factor_n_condition ==
    { IntKey(1, "Animal on Road - Domestic"),
      IntKey(2, "Animal on Road - Wild"),
      IntKey(3, "Backed without Safety"),
      IntKey(4, "Changed Lane when Unsafe"),
      IntKey(14, "Disabled in Traffic Lane"),
      IntKey(15, "Disregard Stop and Go Signal"),
      IntKey(16, "Disregard Stop Sign or Light"),
      IntKey(17, "Disregard Turn Marks at Intersection"),
      IntKey(18, "Disregard Warning Sign at Construction"),
      IntKey(19, "Distraction in Vehicle"),
      IntKey(20, "Driver Inattention"),
      IntKey(21, "Drove Without Headlights"),
      IntKey(22, "Failed to Control Speed"),
      IntKey(23, "Failed to Drive in Single Lane"),
      IntKey(24, "Failed to Give Half of Roadway"),
      IntKey(25, "Failed to Heed Warning Sign or Traffic Control Device"),
      IntKey(26, "Failed to Pass to Left Safely"),
      IntKey(27, "Failed to Pass to Right Safely"),
      IntKey(28, "Failed to Signal or Gave Wrong Signal"),
      IntKey(29, "Failed to Stop at Proper Place"),
      IntKey(30, "Failed to Stop for School Bus"),
      IntKey(31, "Failed to Stop for Train"),
      IntKey(32, "Failed to Yield ROW - Emergency Vehicle"),
      IntKey(33, "Failed to Yield ROW - Open Intersection"),
      IntKey(34, "Failed to Yield ROW - Private Drive"),
      IntKey(35, "Failed to Yield ROW - Stop Sign"),
      IntKey(36, "Failed to Yield ROW - To Pedestrian"),
      IntKey(37, "Failed to Yield ROW - Turning Left"),
      IntKey(38, "Failed to Yield ROW - Turn on Red"),
      IntKey(39, "Failed to Yield ROW - Yield Sign"),
      IntKey(40, "Fatigued or Asleep"),
      IntKey(41, "Faulty Evasive Action"),
      IntKey(42, "Fire in Vehicle"),
      IntKey(43, "Fleeing or Evading Police"),
      IntKey(44, "Followed Too Closely"),
      IntKey(45, "Had Been Drinking"),
      IntKey(46, "Handicapped Driver (Explain in Narrative)"),
      IntKey(47, "Ill (Explain in Narrative)"),
      IntKey(48, "Impaired Visibility (Explain in Narrative)"),
      IntKey(49, "Improper Start from a Stopped, Standing, or Parked Position"),
      IntKey(50, "Load Not Secured"),
      IntKey(51, "Opened Door Into Traffic Lane"),
      IntKey(52, "Oversized Vehicle or Load"),
      IntKey(53, "Overtake and Pass Insufficient Clearance"),
      IntKey(54, "Parked and Failed to Set Brakes"),
      IntKey(55, "Parked in Traffic Lane"),
      IntKey(56, "Parked without Lights"),
      IntKey(57, "Passed in No Passing Lane"),
      IntKey(58, "Passed on Shoulder"),
      IntKey(59, "Pedestrian FTYROW to Vehicle"),
      IntKey(60, "Unsafe Speed"),
      IntKey(61, "Speeding - (Over Limit)"),
      IntKey(62, "Taking Medication (Explain in Narrative)"),
      IntKey(63, "Turned Improperly - Cut Corner on Left"),
      IntKey(64, "Turned Improperly - Wide Right"),
      IntKey(65, "Turned Improperly - Wrong Lane"),
      IntKey(66, "Turned when Unsafe"),
      IntKey(67, "Intoxicated - Alcohol"),
      IntKey(68, "Intoxicated - Drug"),
      IntKey(69, "Wrong Side - Approach or Intersection"),
      IntKey(70, "Wrong Side - Not Passing"),
      IntKey(71, "Wrong Way - One Way Road"),
      IntKey(73, "Road Rage"),
      IntKey(74, "Cell/Mobile Device Use - Talking"),
      IntKey(75, "Cell/Mobile Device Use - Texting"),
      IntKey(76, "Cell/Mobile Device Use - Other"),
      IntKey(77, "Cell/Mobile Device Use - Unknown"),
      IntKey(78, "Failed to slow or move over for vehicles displaying emergency lights"),
      IntKey(79, "Drove on improved shoulder"),
      IntKey(98, "Other (Explain in Narrative)") }

(***************************************************************************)
(* dict.get(code) of a table, code a str: the label of the item whose key  *)
(* is that str, None when there is none (get's default).                   *)
(***************************************************************************)
Hit(table, code) == {e \in table : e.kt = "str" /\ e.k = code}

get(table, code) ==
    IF Hit(table, code) # {}
    THEN PyStr((CHOOSE e \in Hit(table, code) : TRUE).label)
    ELSE PyNone

\* The category strings Dictionary.lookup compares `type` with (lines 3-105).
RecognizedTypes ==
    { "rdwy_part", "rdwy_sys", "direction", "street_suffix",
      "unit_desc", "veh_color", "body_style", "autonomous_unit",
      "autonomous_level_engaged", "dl_id_type", "dl_class", "person_type",
      "person_seat_position", "injury_severity", "ethnicity", "sex",
      "ejected", "restr", "airbag", "helmet",
      "sol", "alc_spec", "drug_spec", "drug_result",
      "drug_category", "fin_resp_type", "vehicle_damage_rating", "weather_cond",
      "light_cond", "entering_roads", "roadway_type", "roadway_alignment",
      "surface_condition", "traffic_control", "unit_num_contributing", "contributing_contributing_factors" }

\* The table of the method that lookup's branch for `type` calls.
TableOf(type) ==
    CASE type = "rdwy_part" -> roadway_part
      [] type = "rdwy_sys" -> roadway_system
      [] type = "direction" -> direction
      [] type = "street_suffix" -> street_suffix
      [] type = "unit_desc" -> unit_description
      [] type = "veh_color" -> vehicle_color
      [] type = "body_style" -> body_style
      [] type = "autonomous_unit" -> autonomous_unit
      [] type = "autonomous_level_engaged" -> autonomous_level_engine
      [] type = "dl_id_type" -> driver_license
      [] type = "dl_class" -> driver_license_class
      [] type = "person_type" -> person_type
      [] type = "person_seat_position" -> seat_position
      [] type = "injury_severity" -> injury_severity
      [] type = "ethnicity" -> ethnicity
      [] type = "sex" -> sex
      [] type = "ejected" -> ejected
      [] type = "restr" -> restraint
      [] type = "airbag" -> airbag
      [] type = "helmet" -> helmet
      [] type = "sol" -> solicitation
      [] type = "alc_spec" -> alc_spec
      [] type = "drug_spec" -> drug_spec
      [] type = "drug_result" -> drug_result
      [] type = "drug_category" -> drug_category
      [] type = "fin_resp_type" -> fin_resp_type
      [] type = "vehicle_damage_rating" -> vehicle_damage_rate
      [] type = "weather_cond" -> weather_condition
      [] type = "light_cond" -> light_condition
      [] type = "entering_roads" -> entering_roads
      [] type = "roadway_type" -> roadway_type
      [] type = "roadway_alignment" -> roadway_alignment
      [] type = "surface_condition" -> surface_condition
      [] type = "traffic_control" -> traffic_conntrol
      [] type = "unit_num_contributing" -> factor_n_condition
      [] type = "contributing_contributing_factors" -> factor_n_condition

\* Dictionary.lookup with its last line `return code` lost: an unmatched type
\* falls off the end of the function, which returns None.
lookup_fallthrough_none(type, code) ==
    IF type \in RecognizedTypes THEN get(TableOf(type), code) ELSE PyNone

\* Dictionary.lookup(type, code): the first matching branch, else `return code`.
lookup(type, code) ==
    CASE type = "rdwy_part" -> get(roadway_part, code)
      [] type = "rdwy_sys" -> get(roadway_system, code)
      [] type = "direction" -> get(direction, code)
      [] type = "street_suffix" -> get(street_suffix, code)
      [] type = "unit_desc" -> get(unit_description, code)
      [] type = "veh_color" -> get(vehicle_color, code)
      [] type = "body_style" -> get(body_style, code)
      [] type = "autonomous_unit" -> get(autonomous_unit, code)
      [] type = "autonomous_level_engaged" -> get(autonomous_level_engine, code)
      [] type = "dl_id_type" -> get(driver_license, code)
      [] type = "dl_class" -> get(driver_license_class, code)
      [] type = "person_type" -> get(person_type, code)
      [] type = "person_seat_position" -> get(seat_position, code)
      [] type = "injury_severity" -> get(injury_severity, code)
      [] type = "ethnicity" -> get(ethnicity, code)
      [] type = "sex" -> get(sex, code)
      [] type = "ejected" -> get(ejected, code)
      [] type = "restr" -> get(restraint, code)
      [] type = "airbag" -> get(airbag, code)
      [] type = "helmet" -> get(helmet, code)
      [] type = "sol" -> get(solicitation, code)
      [] type = "alc_spec" -> get(alc_spec, code)
      [] type = "drug_spec" -> get(drug_spec, code)
      [] type = "drug_result" -> get(drug_result, code)
      [] type = "drug_category" -> get(drug_category, code)
      [] type = "fin_resp_type" -> get(fin_resp_type, code)
      [] type = "vehicle_damage_rating" -> get(vehicle_damage_rate, code)
      [] type = "weather_cond" -> get(weather_condition, code)
      [] type = "light_cond" -> get(light_condition, code)
      [] type = "entering_roads" -> get(entering_roads, code)
      [] type = "roadway_type" -> get(roadway_type, code)
      [] type = "roadway_alignment" -> get(roadway_alignment, code)
      [] type = "surface_condition" -> get(surface_condition, code)
      [] type = "traffic_control" -> get(traffic_conntrol, code)
      [] type = "unit_num_contributing" \/ type = "contributing_contributing_factors" -> get(factor_n_condition, code)
      [] OTHER -> PyStr(code)

(***************************************************************************)
(* Strings that the code takes apart (prefix tests, split, strip, replace) *)
(* are sequences of one-character strings; Str joins such a sequence into  *)
(* a TLC string.                                                           *)
(***************************************************************************)
RECURSIVE Str(_)
Str(cs) == IF cs = <<>> THEN "" ELSE cs[1] \o Str(Tail(cs))

UpperCase ==
    <<"A", "B", "C", "D", "E", "F", "G", "H", "I", "J", "K", "L", "M",
      "N", "O", "P", "Q", "R", "S", "T", "U", "V", "W", "X", "Y", "Z">>

LowerCase ==
    <<"a", "b", "c", "d", "e", "f", "g", "h", "i", "j", "k", "l", "m",
      "n", "o", "p", "q", "r", "s", "t", "u", "v", "w", "x", "y", "z">>

\* str.lower(), character by character.
lower(cs) ==
    [i \in 1..Len(cs) |->
        IF \E j \in 1..26 : UpperCase[j] = cs[i]
        THEN LowerCase[CHOOSE j \in 1..26 : UpperCase[j] = cs[i]]
        ELSE cs[i]]

\* str.replace(old, new) for one-character old and new.
replace(cs, old, new) == [i \in 1..Len(cs) |-> IF cs[i] = old THEN new ELSE cs[i]]

\* str.startswith(prefix)
startswith(cs, prefix) ==
    /\ Len(prefix) <= Len(cs)
    /\ SubSeq(cs, 1, Len(prefix)) = prefix

\* `sub in cs` for strs: sub occurs somewhere in cs.
contains(cs, sub) ==
    \E i \in 0..(Len(cs) - Len(sub)) : SubSeq(cs, i + 1, i + Len(sub)) = sub

\* cs.split(sep)[0]: the part of cs before the first sep (all of cs without one).
split_first(cs, sep) ==
    IF \E i \in 1..Len(cs) : cs[i] = sep
    THEN SubSeq(cs, 1, (CHOOSE i \in 1..Len(cs) :
                            cs[i] = sep /\ \A j \in 1..(i - 1) : cs[j] # sep) - 1)
    ELSE cs

(***************************************************************************)
(* The field tree normalizer: DocumentAIProcessor._get_entity_section and  *)
(* _document_to_dict of src/main.py.                                       *)
(***************************************************************************)
\* "charges"
S_charges ==
    <<"c", "h", "a", "r", "g", "e", "s">>

\* "cmv"
S_cmv ==
    <<"c", "m", "v">>

\* "damage"
S_damage ==
    <<"d", "a", "m", "a", "g", "e">>

\* "disposition_of_injured_killed"
S_disposition_of_injured_killed ==
    <<"d", "i", "s", "p", "o", "s", "i", "t", "i", "o", "n", "_", "o", "f", "_", "i", "n", "j", "u", "r", "e", "d", "_", "k", "i", "l", "l", "e", "d">>

\* "factors_conditions"
S_factors_conditions ==
    <<"f", "a", "c", "t", "o", "r", "s", "_", "c", "o", "n", "d", "i", "t", "i", "o", "n", "s">>

\* "identification_location"
S_identification_location ==
    <<"i", "d", "e", "n", "t", "i", "f", "i", "c", "a", "t", "i", "o", "n", "_", "l", "o", "c", "a", "t", "i", "o", "n">>

\* "investigator"
S_investigator ==
    <<"i", "n", "v", "e", "s", "t", "i", "g", "a", "t", "o", "r">>

\* "narrative"
S_narrative ==
    <<"n", "a", "r", "r", "a", "t", "i", "v", "e">>

\* "vehicle_driver_persons"
S_vehicle_driver_persons ==
    <<"v", "e", "h", "i", "c", "l", "e", "_", "d", "r", "i", "v", "e", "r", "_", "p", "e", "r", "s", "o", "n", "s">>

\* a list of section names in which one name begins another: "cm" ahead of
\* "cmv"
main_sections_nested ==
    << S_charges,
       <<"c", "m">>,
       S_cmv,
       S_damage,
       S_disposition_of_injured_killed,
       S_factors_conditions,
       S_identification_location,
       S_investigator,
       S_narrative,
       S_vehicle_driver_persons >>

\* self.main_sections, in the order of the list (main.py:139-143).
main_sections ==
    << S_charges,
       S_cmv,
       S_damage,
       S_disposition_of_injured_killed,
       S_factors_conditions,
       S_identification_location,
       S_investigator,
       S_narrative,
       S_vehicle_driver_persons >>

SectionNames == {main_sections[i] : i \in 1..Len(main_sections)}

\* The value None of an Optional[str] section.  `if not section` at
\* main.py:263 is all the caller asks of it, and no section name is empty.
NoSection == <<>>

\* `for section in self.main_sections: if s.startswith(section): return section`
first_section(cs) ==
    LET hits == {i \in 1..Len(main_sections) : startswith(cs, main_sections[i])}
    IN  IF hits = {} THEN NoSection
        ELSE main_sections[CHOOSE i \in hits : \A j \in hits : i <= j]

\* _get_entity_section with `section in entity_type_lower` for the prefix test.
_get_entity_section_contains(entity_type) ==
    LET entity_type_lower == lower(entity_type)
        hits == {i \in 1..Len(main_sections) :
                    contains(entity_type_lower, main_sections[i])}
    IN  IF hits = {} THEN NoSection
        ELSE main_sections[CHOOSE i \in hits : \A j \in hits : i <= j]

\* DocumentAIProcessor._get_entity_section(entity_type), main.py:318-334.
_get_entity_section(entity_type) ==
    LET entity_type_lower == lower(entity_type)
        direct == first_section(entity_type_lower)
    IN  IF direct # NoSection THEN direct
        ELSE IF \E i \in 1..Len(entity_type_lower) : entity_type_lower[i] = "/"
             THEN first_section(split_first(entity_type_lower, "/"))
             ELSE NoSection

\* entity_info of main.py:267-274 for the k-th entity of document.entities;
\* id stands for id(entity), the key of entity_map.
subchild_info(subchild) ==
    [ type |-> replace(lower(subchild.type_), " ", "_"),
      value |-> subchild.mention_text,
      confidence |-> subchild.confidence ]

\* entity.properties where hasattr(entity, 'properties'), else no property.
properties_of(entity) ==
    IF "properties" \in DOMAIN entity THEN entity.properties ELSE <<>>

\* child_info of main.py:288-309
child_info(child) ==
    [ type |-> replace(lower(child.type_), " ", "_"),
      value |-> child.mention_text,
      confidence |-> child.confidence,
      child_entities |-> [g \in 1..Len(properties_of(child)) |->
                            subchild_info(properties_of(child)[g])] ]

entity_info(entity, k, section) ==
    [ id |-> k,
      type |-> replace(lower(entity.type_), " ", "_"),
      value |-> entity.mention_text,
      confidence |-> entity.confidence,
      child_entities |-> [c \in 1..Len(properties_of(entity)) |->
                            child_info(properties_of(entity)[c])],
      section |-> section ]

\* The loop of main.py:257-314 from the k-th entity on.
RECURSIVE _document_to_dict_from(_, _, _)
_document_to_dict_from(entities, k, sections) ==
    IF k > Len(entities) THEN sections
    ELSE LET section == _get_entity_section(entities[k].type_)
         IN  IF section = NoSection
             THEN _document_to_dict_from(entities, k + 1, sections)
             ELSE _document_to_dict_from(entities, k + 1,
                    [sections EXCEPT
                        ![section] = Append(@, entity_info(entities[k], k, section))])

\* DocumentAIProcessor.__document_to_dict(document), main.py:237-316.
_document_to_dict(text, entities) ==
    [ text |-> text,
      sections |-> _document_to_dict_from(entities, 1,
                        [section \in SectionNames |-> <<>>]) ]


(***************************************************************************)
(* Bounds and inputs of the lookup specification.                          *)
(***************************************************************************)
Digit == <<"0", "1", "2", "3", "4", "5", "6", "7", "8", "9">>

\* str(n) of a natural number n.
RECURSIVE ToStr(_)
ToStr(n) == IF n < 10 THEN Digit[n + 1] ELSE ToStr(n \div 10) \o Digit[(n % 10) + 1]

KeyStr(e) == IF e.kt = "int" THEN ToStr(e.k) ELSE e.k

\* Category strings no branch of lookup names: the person-description keys
\* age, eject and alc_result, the unit references of charges and
\* disposition, a table's method name, another case, the empty string.
UnrecognizedTypes ==
    { "age", "eject", "alc_result", "unit_num_charges", "unit_num_disp",
      "roadway_system", "RDWY_SYS", "unit_num", "" }

LookupTypes == RecognizedTypes \cup UnrecognizedTypes

\* Codes a document may carry: every key of every table as a str, and strs
\* that are a key of no table.
AllTables ==
    { roadway_part, roadway_system, direction, street_suffix, unit_description,
      vehicle_color, body_style, autonomous_unit, autonomous_level_engine,
      driver_license, driver_license_shadowed, driver_license_class,
      person_type, seat_position, injury_severity, ethnicity, sex, ejected,
      restraint, airbag, helmet, solicitation, alc_spec, drug_spec,
      drug_result, drug_category, fin_resp_type, vehicle_damage_rate,
      weather_condition, light_condition, entering_roads, roadway_type,
      roadway_alignment, surface_condition, traffic_conntrol }

LookupCodes ==
    UNION {{KeyStr(e) : e \in t} : t \in AllTables}
        \cup {KeyStr(e) : e \in factor_n_condition}
        \cup {"", "zz", "0", "12", "Driver"}

InitLookup ==
    /\ lk_type \in LookupTypes
    /\ lk_code \in LookupCodes
    /\ lk_pc = "call"
    /\ lk_ret = PyUnset
    /\ SectionIdle
    /\ PagesIdle
    /\ AddressIdle
    /\ PersonIdle
    /\ LinkIdle
    /\ DriverIdle
    /\ TreeIdle
    /\ CheckboxIdle
    /\ GeocodeIdle
    /\ SheetsIdle
    /\ RetryIdle
    /\ RunIdle
    /\ PathIdle
    /\ SeatIdle
    /\ PoolIdle
    /\ OrderIdle
    /\ OtherIdle
    /\ RunsIdle
    /\ CleanupIdle

\* One call Dictionary.lookup(dictionary, type, code).
Lookup ==
    /\ lk_pc = "call"
    /\ lk_ret' = lookup(lk_type, lk_code)
    /\ lk_pc' = "returned"
    /\ UNCHANGED <<lk_type, lk_code>>
    /\ UNCHANGED lookupFrame

NextLookup == Lookup

SpecLookup == InitLookup /\ [][NextLookup]_vars

(***************************************************************************)
(* Claims about Dictionary.lookup.                                         *)
(***************************************************************************)
Absent(type, code) == Hit(TableOf(type), code) = {}

\* C1: for a recognized category and a code absent from that category's
\* table, lookup returns the str `code` unchanged (never None).
C1_AbsentCodePassthrough ==
    (lk_pc = "returned" /\ lk_type \in RecognizedTypes /\ Absent(lk_type, lk_code))
        => lk_ret = PyStr(lk_code)

\* The table a category is meant to be decoded with: the table the branch
\* reaches, except for dl_id_type, whose driver-license-type table (lines
\* 281-293) is the first def of driver_license.
OwnTable(type) ==
    IF type = "dl_id_type" THEN driver_license_shadowed ELSE TableOf(type)

Listed(type, code) == {e \in OwnTable(type) : KeyStr(e) = code}

\* C2: for a recognized category and a code listed in that category's own
\* table, lookup returns that code's label.
C2_ListedCodeLabel ==
    (lk_pc = "returned" /\ lk_type \in RecognizedTypes /\ Listed(lk_type, lk_code) # {})
        => \E e \in Listed(lk_type, lk_code) : lk_ret = PyStr(e.label)

\* C3: for a category string that no branch recognizes, lookup returns
\* `code` unchanged, for every code.
C3_UnknownCategoryPassthrough ==
    (lk_pc = "returned" /\ lk_type \notin RecognizedTypes)
        => lk_ret = PyStr(lk_code)

C3_Witness ==
    /\ lk_pc = "returned"
    /\ lk_type = "alc_result"
    /\ lk_code = "1"
    /\ lk_ret = PyStr("1")
\* "vehicle_driver_persons/unit_num"
T_vdp_unit_num ==
    <<"v", "e", "h", "i", "c", "l", "e", "_", "d", "r", "i", "v", "e", "r", "_", "p", "e", "r", "s", "o", "n", "s", "/", "u", "n", "i", "t", "_", "n", "u", "m">>

\* "unknown_garbage"
T_unknown_garbage ==
    <<"u", "n", "k", "n", "o", "w", "n", "_", "g", "a", "r", "b", "a", "g", "e">>

\* "Charges"
T_Charges_cap ==
    <<"C", "h", "a", "r", "g", "e", "s">>

\* "cmv_carrier"
T_cmv_carrier ==
    <<"c", "m", "v", "_", "c", "a", "r", "r", "i", "e", "r">>

\* "x/charges"
T_x_charges ==
    <<"x", "/", "c", "h", "a", "r", "g", "e", "s">>

\* "damage rating"
T_damage_rating ==
    <<"d", "a", "m", "a", "g", "e", " ", "r", "a", "t", "i", "n", "g">>

\* "/cmv"
T_slash_cmv ==
    <<"/", "c", "m", "v">>

\* "narrativ"
T_narrativ ==
    <<"n", "a", "r", "r", "a", "t", "i", "v">>

(***************************************************************************)
(* The normalizer specification: one OCR document, one _document_to_dict.  *)
(***************************************************************************)
MaxEntities == 2

\* Types the OCR may return for a top-level entity: section names, nested
\* types, a capitalised name, a name with a space, names that only contain
\* or only begin a section name, the empty type.
SampleTypes ==
    { S_charges, S_cmv, S_vehicle_driver_persons, S_identification_location,
      T_vdp_unit_num, T_unknown_garbage, T_Charges_cap, T_cmv_carrier,
      T_x_charges, T_damage_rating, T_slash_cmv, T_narrativ, <<>> }

SampleEntities == [type_ : SampleTypes, mention_text : {"a", "b"}, confidence : {95}]

BoundedSeq(S, n) == UNION {[1..m -> S] : m \in 0..n}

InitSection ==
    /\ doc_text = "t"
    /\ doc_entities \in BoundedSeq(SampleEntities, MaxEntities)
    /\ dd_pc = "call"
    /\ document_dict = [text |-> "", sections |-> <<>>]
    /\ LookupIdle
    /\ PagesIdle
    /\ AddressIdle
    /\ PersonIdle
    /\ LinkIdle
    /\ DriverIdle
    /\ TreeIdle
    /\ CheckboxIdle
    /\ GeocodeIdle
    /\ SheetsIdle
    /\ RetryIdle
    /\ RunIdle
    /\ PathIdle
    /\ SeatIdle
    /\ PoolIdle
    /\ OrderIdle
    /\ OtherIdle
    /\ RunsIdle
    /\ CleanupIdle

\* One call self._document_to_dict(document, page_number).
DocumentToDict ==
    /\ dd_pc = "call"
    /\ document_dict' = _document_to_dict(doc_text, doc_entities)
    /\ dd_pc' = "returned"
    /\ UNCHANGED <<doc_text, doc_entities>>
    /\ UNCHANGED sectionFrame

NextSection == DocumentToDict

SpecSection == InitSection /\ [][NextSection]_vars

(***************************************************************************)
(* Claims about section assignment.                                        *)
(***************************************************************************)
\* Where the k-th top-level field is in the output: <<section, position>>.
Placements(k) ==
    { pl \in SectionNames \X (1..Len(doc_entities)) :
        /\ pl[2] <= Len(document_dict.sections[pl[1]])
        /\ document_dict.sections[pl[1]][pl[2]].id = k }

PrefixRule(section, type) ==
    \/ startswith(type, section)
    \/ startswith(split_first(type, "/"), section)

\* C4: every top-level field is in the output list of at most one section,
\* and that section's name is a prefix of the field's (normalized) type or
\* of the part of the type before its first "/"; a field typed
\* "vehicle_driver_persons/unit_num" is in vehicle_driver_persons, and a
\* field typed "unknown_garbage" is in no section; the call returns.
C4_SectionAssignment ==
    dd_pc = "returned" =>
        \A k \in 1..Len(doc_entities) :
            /\ Cardinality(Placements(k)) <= 1
            /\ \A pl \in Placements(k) :
                  PrefixRule(pl[1], document_dict.sections[pl[1]][pl[2]].type)
            /\ doc_entities[k].type_ = T_vdp_unit_num =>
                  \E pl \in Placements(k) : pl[1] = S_vehicle_driver_persons
            /\ doc_entities[k].type_ = T_unknown_garbage => Placements(k) = {}

C4_Witness ==
    /\ dd_pc = "returned"
    /\ Len(doc_entities) = 2
    /\ doc_entities[1].type_ = T_unknown_garbage
    /\ doc_entities[2].type_ = T_vdp_unit_num
    /\ Len(document_dict.sections[S_vehicle_driver_persons]) = 1
    /\ document_dict.sections[S_vehicle_driver_persons][1].id = 2
    /\ \A s \in SectionNames \ {S_vehicle_driver_persons} :
          document_dict.sections[s] = <<>>


(***************************************************************************)
(* The page orchestrator: DocumentAIProcessor.process_document_page_by_page*)
(* of src/main.py (lines 986-1143).  The pages' section trees are modelled *)
(* by the normalizer above; here a page's result carries its page number   *)
(* and its text.                                                           *)
(***************************************************************************)
MaxPages == 5

\* min(10, total_pages) at main.py:1023.
WorkerCap == 10

\* a pool of one worker per page, without the cap
max_workers_uncapped(total_pages) == total_pages

max_workers(total_pages) == IF total_pages < WorkerCap THEN total_pages ELSE WorkerCap

\* document.text the OCR returns for physical page i of the input.
OcrText(i) == "text of page " \o ToStr(i)

\* What process_page returns for page i (main.py:182-186).
processed_page(i) == [text |-> OcrText(i), page_number |-> i]

\* page_data of main.py:1053-1057.
page_data(page_num, processed) ==
    [py |-> "dict", page_number |-> page_num, text |-> processed.text]

\* The collector storing each result where the next free slot is (as a list
\* append would), done_count results having been stored before.
slot_completion_order(page_num, done_count) == done_count + 1

\* The (1-based) slot of processed_pages the collector assigns for page_num:
\* processed_pages[page_num - 1] at main.py:1105 and 1110.
slot(page_num, done_count) == page_num

\* A failed page recorded as an empty page instead of None.
failed_entry_placeholder(page_num) == [py |-> "dict", page_number |-> page_num, text |-> ""]

\* What the except branch stores for a failed page (main.py:1110).
failed_entry(page_num) == PyNone

\* [page for page in processed_pages if page is not None], main.py:1113-1115.
not_none(pages) == SelectSeq(pages, LAMBDA page : page # PyNone)

\* sep.join(strs)
RECURSIVE join(_, _)
join(sep, strs) ==
    IF strs = <<>> THEN ""
    ELSE IF Len(strs) = 1 THEN strs[1]
    ELSE strs[1] \o sep \o join(sep, Tail(strs))

texts(pages) == [i \in 1..Len(pages) |-> pages[i].text]

InitPages ==
    /\ pg_total \in 1..MaxPages
    /\ pg_pc = "submit"
    /\ pg_future = [i \in 1..pg_total |-> [state |-> "unsubmitted", outcome |-> "none"]]
    /\ pg_yielded = {}
    /\ processed_pages = <<>>
    /\ full_document_result = [text |-> "", pages |-> <<>>]
    /\ LookupIdle
    /\ SectionIdle
    /\ AddressIdle
    /\ PersonIdle
    /\ LinkIdle
    /\ DriverIdle
    /\ TreeIdle
    /\ CheckboxIdle
    /\ GeocodeIdle
    /\ SheetsIdle
    /\ RetryIdle
    /\ RunIdle
    /\ PathIdle
    /\ SeatIdle
    /\ PoolIdle
    /\ OrderIdle
    /\ OtherIdle
    /\ RunsIdle
    /\ CleanupIdle

Running == {i \in 1..pg_total : pg_future[i].state = "running"}

\* executor.submit(self.process_page, ...) for the next page of page_files
\* (main.py:1028-1036): pages are submitted in order, each once.
SubmitPage ==
    /\ pg_pc = "submit"
    /\ \E i \in 1..pg_total :
          /\ pg_future[i].state = "unsubmitted"
          /\ \A j \in 1..(i - 1) : pg_future[j].state # "unsubmitted"
          /\ pg_future' = [pg_future EXCEPT ![i].state = "pending"]
    /\ UNCHANGED <<pg_total, pg_pc, pg_yielded, processed_pages, full_document_result>>
    /\ UNCHANGED pageFrame

\* processed_pages = [None] * total_pages (main.py:1039), once all are submitted.
BeginCollect ==
    /\ pg_pc = "submit"
    /\ \A i \in 1..pg_total : pg_future[i].state # "unsubmitted"
    /\ processed_pages' = [i \in 1..pg_total |-> PyNone]
    /\ pg_pc' = "collect"
    /\ UNCHANGED <<pg_total, pg_future, pg_yielded, full_document_result>>
    /\ UNCHANGED pageFrame

\* A free worker thread of the pool takes a pending page.
WorkerStart(i) ==
    /\ pg_future[i].state = "pending"
    /\ Cardinality(Running) < max_workers(pg_total)
    /\ pg_future' = [pg_future EXCEPT ![i].state = "running"]
    /\ UNCHANGED <<pg_total, pg_pc, pg_yielded, processed_pages, full_document_result>>
    /\ UNCHANGED pageFrame

\* process_page returns: the OCR call and _document_to_dict succeeded.
ProcessPageReturns(i) ==
    /\ pg_future[i].state = "running"
    /\ pg_future' = [pg_future EXCEPT ![i] = [state |-> "done", outcome |-> "ok"]]
    /\ UNCHANGED <<pg_total, pg_pc, pg_yielded, processed_pages, full_document_result>>
    /\ UNCHANGED pageFrame

\* process_page raises: the OCR call or _document_to_dict raised, and the
\* except branch at main.py:188-190 raises again.
ProcessPageRaises(i) ==
    /\ pg_future[i].state = "running"
    /\ pg_future' = [pg_future EXCEPT ![i] = [state |-> "done", outcome |-> "raise"]]
    /\ UNCHANGED <<pg_total, pg_pc, pg_yielded, processed_pages, full_document_result>>
    /\ UNCHANGED pageFrame

\* One iteration of `for future in as_completed(future_to_page)`
\* (main.py:1042-1110): a finished future not yet yielded is yielded;
\* future.result() returns or raises inside the try.
CollectPage(i) ==
    /\ pg_pc = "collect"
    /\ pg_future[i].state = "done"
    /\ i \notin pg_yielded
    /\ pg_yielded' = pg_yielded \cup {i}
    /\ processed_pages' =
          [processed_pages EXCEPT ![slot(i, Cardinality(pg_yielded))] =
              IF pg_future[i].outcome = "ok"
              THEN page_data(i, processed_page(i))
              ELSE failed_entry(i)]
    /\ UNCHANGED <<pg_total, pg_pc, pg_future, full_document_result>>
    /\ UNCHANGED pageFrame

\* After the loop: filter out the failed pages, join the texts, return
\* (main.py:1113-1120, 1143).
ReturnResult ==
    /\ pg_pc = "collect"
    /\ pg_yielded = 1..pg_total
    /\ full_document_result' =
          [ pages |-> not_none(processed_pages),
            text |-> join("\n", texts(not_none(processed_pages))) ]
    /\ pg_pc' = "returned"
    /\ UNCHANGED <<pg_total, pg_future, pg_yielded, processed_pages>>
    /\ UNCHANGED pageFrame

NextPages ==
    \/ SubmitPage
    \/ BeginCollect
    \/ \E i \in 1..pg_total : WorkerStart(i)
    \/ \E i \in 1..pg_total : ProcessPageReturns(i)
    \/ \E i \in 1..pg_total : ProcessPageRaises(i)
    \/ \E i \in 1..pg_total : CollectPage(i)
    \/ ReturnResult

SpecPages == InitPages /\ [][NextPages]_vars

(***************************************************************************)
(* Claims about the page orchestrator.                                     *)
(***************************************************************************)
FailedPages == {i \in 1..pg_total : pg_future[i].outcome = "raise"}

SucceededPages == {i \in 1..pg_total : pg_future[i].outcome = "ok"}

PageNumbers(pages) == {pages[k].page_number : k \in 1..Len(pages)}

\* C6: a page whose processing raises is recorded as None at index
\* page_number - 1 and every other page is still processed; the returned
\* pages list has length N minus the number of failed pages and holds
\* exactly the pages that succeeded.
C6_PageFailureIsolation ==
    /\ \A i \in pg_yielded :
          pg_future[i].outcome = "raise" => processed_pages[i] = PyNone
    /\ pg_pc = "returned" =>
          /\ FailedPages \cup SucceededPages = 1..pg_total
          /\ Len(full_document_result.pages) = pg_total - Cardinality(FailedPages)
          /\ PageNumbers(full_document_result.pages) = SucceededPages
          /\ \A i \in FailedPages : processed_pages[i] = PyNone

\* Five pages, page 3 failing: four pages returned.
C6_Witness ==
    /\ pg_pc = "returned"
    /\ pg_total = 5
    /\ FailedPages = {3}
    /\ Len(full_document_result.pages) = 4

\* C7: whatever the order in which the futures complete, the returned pages
\* are strictly ascending in page_number, each entry keeps its physical page
\* number (it carries that page's text), and the returned text is the texts
\* of those pages joined by newline in that order.
C7_PageOrder ==
    pg_pc = "returned" =>
        LET pages == full_document_result.pages
        IN  /\ \A k \in 1..(Len(pages) - 1) :
                  pages[k].page_number < pages[k + 1].page_number
            /\ \A k \in 1..Len(pages) :
                  /\ pages[k].page_number \in SucceededPages
                  /\ pages[k].text = OcrText(pages[k].page_number)
            /\ full_document_result.text =
                  join("\n", [k \in 1..Len(pages) |-> OcrText(pages[k].page_number)])

\* Pages 1..3 collected in the order 3, 1 with page 2 failed.
C7_Witness ==
    /\ pg_pc = "returned"
    /\ pg_total = 3
    /\ FailedPages = {2}
    /\ full_document_result.text = "text of page 1\ntext of page 3"
    /\ [k \in 1..Len(full_document_result.pages) |->
            full_document_result.pages[k].page_number] = <<1, 3>>

(***************************************************************************)
(* The workbook renderer: DocumentAIProcessor.save_excel_to_gcs of         *)
(* src/main.py, its identification_location branch (lines 434-606).        *)
(* Field types are the lowercased type strings the normalizer stores;      *)
(* field values are character sequences.                                   *)
(***************************************************************************)
RECURSIVE FoldLeft(_, _, _)
FoldLeft(Op(_, _), acc, s) ==
    IF s = <<>> THEN acc ELSE FoldLeft(Op, Op(acc, s[1]), Tail(s))

\* A Python dict with str keys: a function on the keys it holds.
EmptyDict == <<>>

dict_set(d, k, v) == [kk \in DOMAIN d \cup {k} |-> IF kk = k THEN v ELSE d[kk]]

dict_get(d, k, default) == IF k \in DOMAIN d THEN d[k] ELSE default

\* f"{confidence:.2%}" for a confidence of a whole number of percent.
format_pct(confidence) == ToStr(confidence) \o ".00%"

\* The filled-checkbox glyph U+2611 as one character.
CheckedBox == "#"

elgible_type ==
    { "outside_city_limit", "crash_damage_1000", "owner_lesse_tick_box",
      "proof_of_fin_resp", "investigation_complete" }

\* Any non-empty value of a checkbox field taken as checked.
match_string_for_boolean_nonempty(types, string) ==
    IF types \in elgible_type
    THEN PyStr(IF string # <<>> THEN "true" ELSE "false")
    ELSE lookup(types, Str(string))

\* DocumentAIProcessor.match_string_for_boolean(types, string), main.py:336-341.
\* Every caller passes an already lowercased type, so types.lower() is types.
match_string_for_boolean(types, string) ==
    IF types \in elgible_type
    THEN PyStr(IF \E i \in 1..Len(string) : lower(string)[i] = CheckedBox
               THEN "true" ELSE "false")
    ELSE lookup(types, Str(string))

section_names == <<"General Information", "Road of Crash", "Intersecting Road">>

eligible_types == {"block_num", "street_name", "street_prefix", "street_suffix"}

general_info ==
    { "crash_date", "crash_time", "case_id", "local_use", "country_name",
      "city_name", "outside_city_limit", "crash_damage_1000", "latitude",
      "longitude" }

road_of_crash ==
    { "rdwy_sys", "hwy_num", "rdwy_part", "block_num", "street_prefix",
      "street_name", "street_suffix", "dir_of_traffic", "speed_limit",
      "const_zone", "worker_present", "street_desc" }

intersect_road ==
    { "rdwy_sys", "hwy_num", "rdwy_part", "block_num", "street_prefix",
      "street_name", "street_suffix", "distance_from_int_of_ref_marker",
      "dir_from_int_or_ref_marker", "ref_marker", "speed_limit",
      "street_desc", "rrx_num" }

IsSpace(c) == c \in {" ", "\t", "\n", "\r"}

\* str.strip(): leading and trailing whitespace removed.
RECURSIVE lstrip(_)
lstrip(cs) == IF cs # <<>> /\ IsSpace(cs[1]) THEN lstrip(Tail(cs)) ELSE cs

RECURSIVE rstrip(_)
rstrip(cs) ==
    IF cs # <<>> /\ IsSpace(cs[Len(cs)]) THEN rstrip(SubSeq(cs, 1, Len(cs) - 1)) ELSE cs

strip(cs) == rstrip(lstrip(cs))

\* full_address of main.py:516-521 (and 551-556): the f-string of the three
\* stored components and the suffix entry's value, then .strip().
full_address(street_address, suffix) ==
    strip(dict_get(street_address, "block_num", <<>>) \o <<" ">>
          \o dict_get(street_address, "street_prefix", <<>>) \o <<" ">>
          \o dict_get(street_address, "street_name", <<>>) \o <<" ">>
          \o suffix)

section_header(page_num, section) ==
    [Page |-> page_num, Level |-> "Section Header", Type |-> section,
     Value |-> PyStr(""), Confidence |-> ""]

field_row(page_num, child_type, entry) ==
    [Page |-> page_num, Level |-> "Field", Type |-> child_type,
     Value |-> match_string_for_boolean(child_type, entry.value),
     Confidence |-> format_pct(entry.confidence)]

address_row(page_num, street_address, entry) ==
    [Page |-> page_num, Level |-> "Field", Type |-> "street_address",
     Value |-> PyStr(Str(full_address(street_address, entry.value))),
     Confidence |-> format_pct(entry.confidence)]

separator_row(page_num) ==
    [Page |-> page_num, Level |-> "Separator", Type |-> "",
     Value |-> PyStr(""), Confidence |-> ""]

\* The body of `for entry in child_entries` (main.py:476-569) for one entry;
\* st holds rows and the street_address dict.  The geocoding call of lines
\* 487-499 is not part of this specification: its inputs hold no
\* country_name field.
render_entry(st, page_num, section, child_type, entry) ==
    IF section = "General Information"
    THEN IF child_type \in general_info
         THEN [st EXCEPT !.rows = Append(@, field_row(page_num, child_type, entry))]
         ELSE st
    ELSE IF child_type \in (IF section = "Road of Crash" THEN road_of_crash
                            ELSE intersect_road)
    THEN IF child_type \notin eligible_types
         THEN [st EXCEPT !.rows = Append(@, field_row(page_num, child_type, entry))]
         ELSE IF child_type = "street_suffix"
         THEN [st EXCEPT !.rows = Append(@, address_row(page_num, st.street_address, entry))]
         ELSE [st EXCEPT !.street_address = dict_set(@, child_type, entry.value)]
    ELSE st

\* One pass `for section in section_names` over a record's child_fields
\* (main.py:463-569): the header row, then every entry of every child type.
render_section(st, page_num, section, parent_entity) ==
    FoldLeft(
        LAMBDA st1, field :
            FoldLeft(LAMBDA st2, entry :
                        render_entry(st2, page_num, section, field.type, entry),
                     st1, field.entries),
        [st EXCEPT !.rows = Append(@, section_header(page_num, section))],
        parent_entity.child_fields)

\* The rows of one identification_location record's sheet (main.py:436-578),
\* and the street_address dict as the three passes leave it.
render_location(street_address, page_num, parent_entity) ==
    LET st == FoldLeft(
                LAMBDA st1, section : render_section(st1, page_num, section, parent_entity),
                [rows |-> <<>>, street_address |-> street_address],
                section_names)
    IN  [st EXCEPT !.rows = Append(@, separator_row(page_num))]

\* The identification_location sheets of one page (main.py:422-437): the
\* street_address dict is created once per page (line 426) and carried
\* through every record of the page.
render_locations(page_num, parent_entities) ==
    FoldLeft(
        LAMBDA acc, parent_entity :
            LET st == render_location(acc.street_address, page_num, parent_entity)
            IN  [sheets |-> Append(acc.sheets, st.rows),
                 street_address |-> st.street_address],
        [sheets |-> <<>>, street_address |-> EmptyDict],
        parent_entities).sheets

(***************************************************************************)
(* The address specification: the identification_location records of one   *)
(* page, rendered by one call.  A record holds a rdwy_sys field and, each   *)
(* present with a value, present but empty, or missing, the four address   *)
(* components, in the order block_num, street_prefix, street_name with     *)
(* street_suffix after them or before them.  The records of a page carry   *)
(* different values.                                                       *)
(***************************************************************************)
MaxLocations == 2

V_100 == <<"1", "0", "0">>

V_N == <<"N">>

V_Main == <<"M", "a", "i", "n">>

V_ST == <<"S", "T">>

V_200 == <<"2", "0", "0">>

V_S == <<"S">>

V_Oak == <<"O", "a", "k">>

V_RD == <<"R", "D">>

V_IH == <<"I", "H">>

ComponentValue(r, type) ==
    IF r % 2 = 1
    THEN CASE type = "block_num" -> V_100
           [] type = "street_prefix" -> V_N
           [] type = "street_name" -> V_Main
           [] type = "street_suffix" -> V_ST
    ELSE CASE type = "block_num" -> V_200
           [] type = "street_prefix" -> V_S
           [] type = "street_name" -> V_Oak
           [] type = "street_suffix" -> V_RD

Status == {"value", "empty", "missing"}

LocationChoices ==
    { c \in [block_num : Status, street_prefix : Status, street_name : Status,
             street_suffix : Status, suffix_first : BOOLEAN] :
        c.street_suffix = "missing" => ~c.suffix_first }

child_field(r, type, status) ==
    IF status = "missing" THEN <<>>
    ELSE << [type |-> type,
             entries |-> << [value |-> IF status = "empty" THEN <<>>
                                       ELSE ComponentValue(r, type),
                             confidence |-> 95] >>] >>

\* The r-th identification_location record of the page, as the orchestrator
\* builds parent_entry (main.py:1070-1099): child_fields in first-seen order.
LocationRecord(r, c) ==
    LET suffix == child_field(r, "street_suffix", c.street_suffix)
        others == child_field(r, "block_num", c.block_num)
                    \o child_field(r, "street_prefix", c.street_prefix)
                    \o child_field(r, "street_name", c.street_name)
    IN  [type |-> "identification_location",
         value |-> <<>>,
         confidence |-> 95,
         child_fields |->
            << [type |-> "rdwy_sys", entries |-> <<[value |-> V_IH, confidence |-> 95]>>] >>
            \o (IF c.suffix_first THEN suffix \o others ELSE others \o suffix)]

InitAddress ==
    /\ addr_page_num = 1
    /\ \E n \in 1..MaxLocations :
          \E cs \in [1..n -> LocationChoices] :
              addr_locations = [r \in 1..n |-> LocationRecord(r, cs[r])]
    /\ addr_pc = "call"
    /\ addr_sheets = <<>>
    /\ LookupIdle
    /\ SectionIdle
    /\ PagesIdle
    /\ PersonIdle
    /\ LinkIdle
    /\ DriverIdle
    /\ TreeIdle
    /\ CheckboxIdle
    /\ GeocodeIdle
    /\ SheetsIdle
    /\ RetryIdle
    /\ RunIdle
    /\ PathIdle
    /\ SeatIdle
    /\ PoolIdle
    /\ OrderIdle
    /\ OtherIdle
    /\ RunsIdle
    /\ CleanupIdle

\* The identification_location branch of one call of save_excel_to_gcs for
\* one page.
RenderLocations ==
    /\ addr_pc = "call"
    /\ addr_sheets' = render_locations(addr_page_num, addr_locations)
    /\ addr_pc' = "returned"
    /\ UNCHANGED <<addr_page_num, addr_locations>>
    /\ UNCHANGED addressFrame

NextAddress == RenderLocations

SpecAddress == InitAddress /\ [][NextAddress]_vars

(***************************************************************************)
(* Claims about the composite street address.                              *)
(***************************************************************************)
\* The rows of a sheet under the header of `section`.
SectionRows(rows, section) ==
    LET h == CHOOSE k \in 1..Len(rows) :
                rows[k].Level = "Section Header" /\ rows[k].Type = section
        stop == CHOOSE k \in (h + 1)..Len(rows) :
                /\ rows[k].Level \in {"Section Header", "Separator"}
                /\ \A j \in (h + 1)..(k - 1) :
                      rows[j].Level \notin {"Section Header", "Separator"}
    IN  SubSeq(rows, h + 1, stop - 1)

AddressRows(rows) == SelectSeq(rows, LAMBDA row : row.Type = "street_address")

FieldIndex(parent_entity, type) ==
    {k \in 1..Len(parent_entity.child_fields) : parent_entity.child_fields[k].type = type}

\* The value of the record's component `type` if the pass meets it before
\* the street_suffix field, the empty string otherwise.
ComponentBeforeSuffix(parent_entity, type) ==
    LET at == FieldIndex(parent_entity, type)
        suffix_at == FieldIndex(parent_entity, "street_suffix")
    IN  IF at # {} /\ \A k \in at : \A s \in suffix_at : k < s
        THEN parent_entity.child_fields[CHOOSE k \in at : TRUE].entries[1].value
        ELSE <<>>

\* The components joined by exactly one space each, an empty or missing
\* component leaving no space behind.
joined_address(parts) ==
    FoldLeft(LAMBDA acc, part : IF acc = <<>> THEN part ELSE acc \o <<" ">> \o part,
             <<>>, SelectSeq(parts, LAMBDA part : part # <<>>))

ExpectedAddress(parent_entity) ==
    joined_address(<< ComponentBeforeSuffix(parent_entity, "block_num"),
                      ComponentBeforeSuffix(parent_entity, "street_prefix"),
                      ComponentBeforeSuffix(parent_entity, "street_name"),
                      parent_entity.child_fields[
                          CHOOSE k \in FieldIndex(parent_entity, "street_suffix") : TRUE
                      ].entries[1].value >>)

\* C8: the street_address synthesized when street_suffix arrives is the
\* components block_num, street_prefix, street_name, street_suffix joined by
\* exactly one space each, with no leading or trailing whitespace, also
\* when a component is empty or missing.  Stated of the first record's
\* Road of Crash pass, whose street_address dict starts empty.
C8_StreetAddressValue ==
    (addr_pc = "returned" /\ FieldIndex(addr_locations[1], "street_suffix") # {}) =>
        LET emitted == AddressRows(SectionRows(addr_sheets[1], "Road of Crash"))
        IN  /\ Len(emitted) = 1
            /\ emitted[1].Value = PyStr(Str(ExpectedAddress(addr_locations[1])))

\* A record rendered with a street_address dict of its own for each pass.
render_location_local(page_num, parent_entity) ==
    Append(
        FoldLeft(
            LAMBDA rows, section :
                render_section([rows |-> rows, street_address |-> EmptyDict],
                               page_num, section, parent_entity).rows,
            <<>>, section_names),
        separator_row(page_num))

\* C9: the street_address emitted for one subset (Road of Crash or
\* Intersecting Road) of one record is built only from the components met
\* during that subset's own pass over that record: every sheet is what the
\* passes give when each starts from an empty street_address dict.
C9_AddressStateLocal ==
    addr_pc = "returned" =>
        \A r \in 1..Len(addr_locations) :
            addr_sheets[r] = render_location_local(addr_page_num, addr_locations[r])

(***************************************************************************)
(* The person-description decoder:                                         *)
(* DocumentAIProcessor.extract_person_description of src/main.py:343-381.  *)
(***************************************************************************)
\* str.strip(chars) for a one-character chars.
RECURSIVE strip_of(_, _)
strip_of(cs, ch) ==
    IF cs # <<>> /\ cs[1] = ch THEN strip_of(Tail(cs), ch)
    ELSE IF cs # <<>> /\ cs[Len(cs)] = ch THEN strip_of(SubSeq(cs, 1, Len(cs) - 1), ch)
    ELSE cs

\* str.split(sep) for a one-character sep: every sep cuts, empty parts stay.
RECURSIVE split(_, _)
split(cs, sep) ==
    IF \E i \in 1..Len(cs) : cs[i] = sep
    THEN LET first == split_first(cs, sep)
         IN  <<first>> \o split(SubSeq(cs, Len(first) + 2, Len(cs)), sep)
    ELSE <<cs>>

keys ==
    << "injury_severity", "age", "ethnicity", "sex", "eject", "restr",
       "airbag", "helmet", "sol", "alc_spec", "drug_spec",
       "drug_result", "drug_category", "alc_result" >>

child_row(child_num, key, value) ==
    [Page |-> child_num, Level |-> "child", Type |-> key,
     Value |-> IF value = <<>> THEN PyStr("") ELSE lookup(key, Str(value)),
     Confidence |-> "100.00%"]

\* The rows of zip(keys, values): one row per value the blob holds.
extract_person_description_zip(child_num, description) ==
    LET input_string == replace(description, " ", "\n")
        values == split(strip_of(input_string, "\""), "\n")
        n == IF Len(values) < Len(keys) THEN Len(values) ELSE Len(keys)
    IN  [i \in 1..n |-> child_row(child_num, keys[i], values[i])]

extract_person_description(child_num, description) ==
    LET input_string == replace(description, " ", "\n")
        values == split(strip_of(input_string, "\""), "\n")
    IN  [i \in 1..Len(keys) |->
            child_row(child_num, keys[i],
                      IF i <= Len(values) THEN values[i] ELSE <<>>)]

(***************************************************************************)
(* The person specification: one call of extract_person_description on a   *)
(* blob: either up to MaxBlobLen characters drawn from two codes, the      *)
(* space, the tab and the double quote, or up to MaxTokens one-character   *)
(* codes with a single space between them, all the same code but one.      *)
(***************************************************************************)
MaxBlobLen == 5

BlobChars == {"1", "A", " ", "\t", "\""}

MaxTokens == 14

TokenCodes == {"1", "2", "A"}

\* n codes, c everywhere but d at position j, a space between neighbours.
TokenBlob(n, j, c, d) ==
    [i \in 1..(2 * n - 1) |->
        IF i % 2 = 0 THEN " " ELSE IF (i + 1) \div 2 = j THEN d ELSE c]

TokenBlobs ==
    { TokenBlob(n, j, c, d) : n \in 1..MaxTokens, j \in 1..MaxTokens,
                              c \in TokenCodes, d \in TokenCodes }

Blobs == UNION { [1..n -> BlobChars] : n \in 0..MaxBlobLen } \cup TokenBlobs

InitPerson ==
    /\ pd_child_num = 1
    /\ pd_description \in Blobs
    /\ pd_pc = "call"
    /\ pd_child_rows = <<>>
    /\ LookupIdle
    /\ SectionIdle
    /\ PagesIdle
    /\ AddressIdle
    /\ LinkIdle
    /\ DriverIdle
    /\ TreeIdle
    /\ CheckboxIdle
    /\ GeocodeIdle
    /\ SheetsIdle
    /\ RetryIdle
    /\ RunIdle
    /\ PathIdle
    /\ SeatIdle
    /\ PoolIdle
    /\ OrderIdle
    /\ OtherIdle
    /\ RunsIdle
    /\ CleanupIdle

ExtractPersonDescription ==
    /\ pd_pc = "call"
    /\ pd_child_rows' = extract_person_description(pd_child_num, pd_description)
    /\ pd_pc' = "returned"
    /\ UNCHANGED <<pd_child_num, pd_description>>
    /\ UNCHANGED personFrame

NextPerson == ExtractPersonDescription

SpecPerson == InitPerson /\ [][NextPerson]_vars

\* The whitespace-delimited tokens of a str: runs of whitespace separate,
\* no token is empty.
RECURSIVE WhitespaceTokens(_)
WhitespaceTokens(cs) ==
    LET s == lstrip(cs)
    IN  IF s = <<>> THEN <<>>
        ELSE LET n == IF \E i \in 1..Len(s) : IsSpace(s[i])
                      THEN CHOOSE i \in 1..Len(s) :
                              IsSpace(s[i]) /\ \A j \in 1..(i - 1) : ~IsSpace(s[j])
                      ELSE Len(s) + 1
             IN  <<SubSeq(s, 1, n - 1)>> \o WhitespaceTokens(SubSeq(s, n, Len(s)))

\* C10: for every blob the decoder returns exactly 14 rows typed, in order,
\* injury_severity, age, ethnicity, sex, eject, restr, airbag, helmet, sol,
\* alc_spec, drug_spec, drug_result, drug_category, alc_result, and row i is
\* derived from the i-th whitespace-delimited token of the blob, whatever
\* whitespace separates the tokens (an empty value where the blob has no
\* i-th token).
C10_PositionalDecoding ==
    pd_pc = "returned" =>
        LET tokens == WhitespaceTokens(strip_of(pd_description, "\""))
        IN  /\ Len(pd_child_rows) = 14
            /\ \A i \in 1..14 :
                  /\ pd_child_rows[i].Type = keys[i]
                  /\ pd_child_rows[i].Value =
                        IF i <= Len(tokens) THEN lookup(keys[i], Str(tokens[i]))
                        ELSE PyStr("")

\* The value the decoder takes for field i: values[i] of main.py:362.
PersonValues(description) == split(strip_of(replace(description, " ", "\n"), "\""), "\n")

\* The code table of the category a person-description field belongs to;
\* the dictionary has no table of alcohol results.
FieldTable(key) ==
    CASE key = "injury_severity" -> injury_severity
      [] key = "ethnicity" -> ethnicity
      [] key = "sex" -> sex
      [] key = "eject" -> ejected
      [] key = "restr" -> restraint
      [] key = "airbag" -> airbag
      [] key = "helmet" -> helmet
      [] key = "sol" -> solicitation
      [] key = "alc_spec" -> alc_spec
      [] key = "drug_spec" -> drug_spec
      [] key = "drug_result" -> drug_result
      [] key = "drug_category" -> drug_category
      [] OTHER -> {}

\* C11: every non-age field whose value is a code of the field's category
\* table comes out as that code's label (eject "2" as "Yes"); the age value
\* comes out verbatim.
C11_FieldsDecodedByCategory ==
    pd_pc = "returned" =>
        LET values == PersonValues(pd_description)
        IN  \A i \in 1..Len(keys) :
                (i <= Len(values) /\ values[i] # <<>>) =>
                    IF keys[i] = "age"
                    THEN pd_child_rows[i].Value = PyStr(Str(values[i]))
                    ELSE \A e \in FieldTable(keys[i]) :
                            KeyStr(e) = Str(values[i]) =>
                                pd_child_rows[i].Value = PyStr(e.label)

C12_WitnessEmptyBlob ==
    /\ pd_pc = "returned"
    /\ pd_description = <<>>
    /\ Len(pd_child_rows) = 14

(***************************************************************************)
(* The unit view: DocumentAIProcessor.save_excel_to_gcs of                 *)
(* src/main-backup.py:457-650, one worksheet per vehicle unit of a page    *)
(* with the charges, factors and dispositions that refer to the unit.      *)
(* Values are only compared and copied here, so they are plain strs.  A    *)
(* worksheet is the sequence of its rows, each <<column 0, column 1>>, a   *)
(* row the code skips being BlankRow.                                      *)
(***************************************************************************)
BlankRow == <<"", "">>

\* next((e.get("value") for e in entities if e.get("type") == type), default)
first_value(entities, type, default) ==
    LET found == SelectSeq(entities, LAMBDA e : e.type = type)
    IN  IF found = <<>> THEN default ELSE found[1].value

\* main-backup.py:467-468
unit_num_of(unit_data) ==
    LET given == SelectSeq(dict_get(unit_data.child_fields, "unit_num", <<>>),
                           LAMBDA field : field.value # "")
    IN  IF given = <<>> THEN "Unknown" ELSE given[1].value

vehicle_fields ==
    << <<"veh_year", "Year">>, <<"veh_make", "Make">>, <<"veh_model", "Model">>,
       <<"veh_color", "Color">>, <<"vin", "VIN">>,
       <<"lp_state", "License Plate State">>, <<"lp_num", "License Plate Number">> >>

\* main-backup.py:470-479: the name of the first person, in the order of the
\* unit's person_num entries, that has a person_type entity of value "1".
has_driver_code(entities) ==
    \E i \in 1..Len(entities) :
        entities[i].type = "person_type" /\ entities[i].value = "1"

driver_name_of(unit_data) ==
    LET drivers == SelectSeq(dict_get(unit_data.child_fields, "person_num", <<>>),
                             LAMBDA person : has_driver_code(person.entities))
    IN  IF drivers = <<>> THEN "Unknown Driver"
        ELSE first_value(drivers[1].entities, "person_name", "Unknown Driver")

\* person_info[key] = value on a dict kept as its items in insertion order.
items_set(items, key, value) ==
    IF \E i \in 1..Len(items) : items[i][1] = key
    THEN [i \in 1..Len(items) |-> IF items[i][1] = key THEN <<key, value>> ELSE items[i]]
    ELSE Append(items, <<key, value>>)

\* str.title() of the keys person_info can hold.
key_title(key) ==
    CASE key = "name" -> "Name"
      [] key = "age" -> "Age"
      [] key = "ethnicity" -> "Ethnicity"

\* main-backup.py:515-525: person_info of one person.  The value of a
\* person_description entity is a character sequence, cut by str.split().
person_info_of(entities) ==
    FoldLeft(
        LAMBDA info, entity :
            IF entity.type = "person_name" THEN items_set(info, "name", entity.value)
            ELSE IF entity.type = "person_description"
            THEN LET desc_parts == WhitespaceTokens(entity.value)
                     with_age == IF Len(desc_parts) >= 2
                                 THEN items_set(info, "age", Str(desc_parts[2]))
                                 ELSE info
                 IN  IF Len(desc_parts) >= 3
                     THEN items_set(with_age, "ethnicity", Str(desc_parts[3]))
                     ELSE with_age
            ELSE info,
        <<>>, entities)

\* main-backup.py:511-536: the rows of one person of the People section.
person_rows(person) ==
    << <<(IF has_driver_code(person.entities) THEN "Driver" ELSE "Passenger")
          \o " Information", "">> >>
    \o [i \in 1..Len(person_info_of(person.entities)) |->
          <<key_title(person_info_of(person.entities)[i][1]),
            person_info_of(person.entities)[i][2]>>]
    \o <<BlankRow>>

\* main-backup.py:508-536
people_rows(unit_data) ==
    << <<"People Information", "">> >>
    \o FoldLeft(LAMBDA rows, person : rows \o person_rows(person), <<>>,
                dict_get(unit_data.child_fields, "person_num", <<>>))

\* main-backup.py:490-505
vehicle_rows(unit_data) ==
    << <<"Vehicle Information", "">> >>
    \o [i \in 1..Len(vehicle_fields) |->
          LET entries == dict_get(unit_data.child_fields, vehicle_fields[i][1], <<>>)
          IN  <<vehicle_fields[i][2], IF entries = <<>> THEN "" ELSE entries[1].value>>]
    \o <<BlankRow>>

\* Only the first field that refers to the unit.
matching_entities_first(records, key, ref_type, unit_num) ==
    LET all == FoldLeft(
                 LAMBDA acc, record :
                     acc \o SelectSeq(dict_get(record.child_fields, key, <<>>),
                                      LAMBDA field :
                                         \E i \in 1..Len(field.entities) :
                                            /\ field.entities[i].type = ref_type
                                            /\ field.entities[i].value = unit_num),
                 <<>>, records)
    IN  IF all = <<>> THEN <<>> ELSE <<all[1].entities>>

\* The entity lists of the fields under `key` of the records, in document
\* order, that hold an entity of type ref_type whose value equals unit_num
\* (the any(...) tests of main-backup.py:548, 587 and 623).
matching_entities(records, key, ref_type, unit_num) ==
    FoldLeft(
        LAMBDA acc, record :
            FoldLeft(
                LAMBDA acc2, field :
                    IF \E i \in 1..Len(field.entities) :
                          /\ field.entities[i].type = ref_type
                          /\ field.entities[i].value = unit_num
                    THEN Append(acc2, field.entities) ELSE acc2,
                acc, dict_get(record.child_fields, key, <<>>)),
        <<>>, records)

\* main-backup.py:556-575
charge_rows(entities) ==
    << <<"Person Number", first_value(entities, "person_num_charges", "")>>,
       <<"Charge", first_value(entities, "charge", "")>>,
       <<"Citation", first_value(entities, "citation_ref_num", "")>>,
       BlankRow >>

factor_fields ==
    << <<"contributing_contributing_factors", "Contributing Factor">>,
       <<"weather_cond", "Weather Condition">>,
       <<"roadway_type", "Road Type">>,
       <<"traffic_control", "Traffic Control">>,
       <<"surface_condition", "Surface Condition">> >>

\* main-backup.py:595-611
factor_rows(entities) ==
    FoldLeft(
        LAMBDA rows, ff :
            LET value == first_value(entities, ff[1], "")
            IN  IF value # "" THEN Append(rows, <<ff[2], value>>) ELSE rows,
        <<>>, factor_fields)
    \o <<BlankRow>>

\* main-backup.py:631-650
disposition_rows(entities) ==
    << <<"Person Number", first_value(entities, "person_num_disposition", "")>>,
       <<"Taken To", first_value(entities, "taken_to", "")>>,
       <<"Taken By", first_value(entities, "taken_by", "")>>,
       BlankRow >>

\* One of the three linked sections: its header once, before the first
\* match, then the detail rows of every match.
linked_rows(title, matches, detail_rows(_)) ==
    IF matches = <<>> THEN <<>>
    ELSE << <<title, "">> >>
         \o FoldLeft(LAMBDA rows, entities : rows \o detail_rows(entities), <<>>, matches)

section_records(page, section) == dict_get(page.hierarchical_fields, section, <<>>)

\* s[:n]
truncate(s, n) == IF Len(s) <= n THEN s ELSE SubSeq(s, 1, n)

SheetNameLimit == 31

\* f"Unit {unit_num} - {driver_name}"[:31] (main-backup.py:482)
unit_sheet_name(unit_data) ==
    truncate("Unit " \o unit_num_of(unit_data) \o " - " \o driver_name_of(unit_data),
             SheetNameLimit)

\* The worksheet of one unit (main-backup.py:465-650).
unit_sheet(page, unit_data) ==
    LET unit_num == unit_num_of(unit_data)
    IN  [sheet_name |-> unit_sheet_name(unit_data),
         rows |->
            vehicle_rows(unit_data)
            \o people_rows(unit_data)
            \o linked_rows("Charges Information",
                   matching_entities(section_records(page, "charges"),
                                     "unit_num", "unit_num_charges", unit_num),
                   charge_rows)
            \o linked_rows("Factors & Conditions",
                   matching_entities(section_records(page, "factors_conditions"),
                                     "unit_contributing_factors",
                                     "unit_num_contributing", unit_num),
                   factor_rows)
            \o linked_rows("Disposition Information",
                   matching_entities(section_records(page, "disposition_of_injured_killed"),
                                     "unit_num_disposition", "unit_num_disp", unit_num),
                   disposition_rows)]

unit_sheets(page) ==
    LET vehicle_drivers == section_records(page, "vehicle_driver_persons")
    IN  [u \in 1..Len(vehicle_drivers) |-> unit_sheet(page, vehicle_drivers[u])]

(***************************************************************************)
(* The linking specification: one page with one or two vehicle units,      *)
(* each with unit_num "1", "2" or none, and up to MaxRecords records in    *)
(* each of charges, factors_conditions and disposition_of_injured_killed,  *)
(* each referring to unit "1" or "2".  The k-th record of a section        *)
(* carries a detail value of its own.  Units of one page have different    *)
(* sheet names: add_worksheet raises on a name already in the workbook.    *)
(***************************************************************************)
MaxRecords == 2

UnitRefs == {"1", "2"}

unit_record(unit_num) ==
    [type |-> "vehicle_driver_persons",
     child_fields |-> IF unit_num = "" THEN EmptyDict
                      ELSE [unit_num |-> << [value |-> unit_num, entities |-> <<>>] >>]]

charge_record(k, ref) ==
    [type |-> "charges",
     child_fields |->
        [unit_num |-> << [value |-> ref, entities |->
            << [type |-> "unit_num_charges", value |-> ref],
               [type |-> "charge", value |-> "C" \o ToStr(k)] >>] >>]]

factor_record(k, ref) ==
    [type |-> "factors_conditions",
     child_fields |->
        [unit_contributing_factors |-> << [value |-> ref, entities |->
            << [type |-> "unit_num_contributing", value |-> ref],
               [type |-> "contributing_contributing_factors", value |-> "F" \o ToStr(k)] >>] >>]]

disposition_record(k, ref) ==
    [type |-> "disposition_of_injured_killed",
     child_fields |->
        [unit_num_disposition |-> << [value |-> ref, entities |->
            << [type |-> "unit_num_disp", value |-> ref],
               [type |-> "taken_to", value |-> "H" \o ToStr(k)] >>] >>]]

RefLists == UNION { [1..n -> UnitRefs] : n \in 0..MaxRecords }

UnitLists ==
    { us \in UNION { [1..n -> UnitRefs \cup {""}] : n \in 1..2 } :
        \A i, j \in 1..Len(us) : i # j => us[i] # us[j] }

InitLink ==
    /\ \E us \in UnitLists, cs \in RefLists, fs \in RefLists, ds \in RefLists :
          ln_page =
            [hierarchical_fields |->
                [vehicle_driver_persons |-> [u \in 1..Len(us) |-> unit_record(us[u])],
                 charges |-> [k \in 1..Len(cs) |-> charge_record(k, cs[k])],
                 factors_conditions |-> [k \in 1..Len(fs) |-> factor_record(k, fs[k])],
                 disposition_of_injured_killed |->
                    [k \in 1..Len(ds) |-> disposition_record(k, ds[k])]]]
    /\ ln_pc = "call"
    /\ ln_worksheets = <<>>
    /\ LookupIdle
    /\ SectionIdle
    /\ PagesIdle
    /\ AddressIdle
    /\ PersonIdle
    /\ DriverIdle
    /\ TreeIdle
    /\ CheckboxIdle
    /\ GeocodeIdle
    /\ SheetsIdle
    /\ RetryIdle
    /\ RunIdle
    /\ PathIdle
    /\ SeatIdle
    /\ PoolIdle
    /\ OrderIdle
    /\ OtherIdle
    /\ RunsIdle
    /\ CleanupIdle

RenderUnits ==
    /\ ln_pc = "call"
    /\ ln_worksheets' = unit_sheets(ln_page)
    /\ ln_pc' = "returned"
    /\ UNCHANGED ln_page
    /\ UNCHANGED linkFrame

NextLink == RenderUnits

SpecLink == InitLink /\ [][NextLink]_vars

\* The three linked sections: the unit-number reference of a record, the
\* child field that holds it, and the row that shows the record's detail.
LinkedSections ==
    { [section |-> "charges", key |-> "unit_num",
       ref_type |-> "unit_num_charges", detail |-> "charge", label |-> "Charge"],
      [section |-> "factors_conditions", key |-> "unit_contributing_factors",
       ref_type |-> "unit_num_contributing",
       detail |-> "contributing_contributing_factors", label |-> "Contributing Factor"],
      [section |-> "disposition_of_injured_killed", key |-> "unit_num_disposition",
       ref_type |-> "unit_num_disp", detail |-> "taken_to", label |-> "Taken To"] }

RecordEntities(record, ls) == record.child_fields[ls.key][1].entities

\* The record's detail row is on the worksheet.
Included(sheet, record, ls) ==
    \E r \in 1..Len(sheet.rows) :
        sheet.rows[r] = <<ls.label, first_value(RecordEntities(record, ls), ls.detail, "")>>

HasUnitNum(unit_data) == "unit_num" \in DOMAIN unit_data.child_fields

PERSON_TYPE ==
    { StrKey("1", "Driver"),
      StrKey("2", "Passenger/Occupant"),
      StrKey("3", "Pedalcyclist"),
      StrKey("4", "Pedestrian"),
      StrKey("5", "Driver of Motorcycle Type Vehicle"),
      StrKey("6", "Passenger/Occupant on Motorcycle Type Vehicle"),
      StrKey("95", "Autonomous"),
      StrKey("98", "Other"),
      StrKey("99", "Unknown") }

\* category_dict.get(str(code), code), main-backup1.py:1565
get_description(category_dict, code) ==
    IF Hit(category_dict, code) # {}
    THEN (CHOOSE e \in Hit(category_dict, code) : TRUE).label
    ELSE code

\* The dict extract_person_description of CrashReportDataProcessor starts
\* from (main-backup1.py:1682-1697).
fields ==
    [k \in {"injury_severity", "age", "ethnicity", "sex", "eject", "restr", "airbag",
            "helmet", "sol", "alc_spec", "alc_result", "drug_spec", "drug_result",
            "drug_category"} |-> ""]

\* extract_person_description (main-backup1.py:1671-1770) of a description
\* given as its non-blank lines, for descriptions of fewer than 8 lines:
\* the dict is returned as it started (lines 1699-1700, 1707-1708).  A
\* longer description has its values decoded into the same keys.
description_fields(parts) == fields

\* main-backup1.py:1840-1852: person_info of one person.  The persons of
\* this specification hold no person_description entity, so 'details'
\* stays the empty dict.
person_info(person) ==
    FoldLeft(
        LAMBDA info, entity :
            IF entity.type = "person_name" THEN dict_set(info, "name", entity.value)
            ELSE IF entity.type = "person_type"
            THEN dict_set(dict_set(info, "type", get_description(PERSON_TYPE, entity.value)),
                          "type_code", entity.value)
            ELSE IF entity.type = "person_description"
            THEN dict_set(info, "details", description_fields(entity.value))
            ELSE info,
        [details |-> EmptyDict], person.entities)

\* The order of Python on the strs a seat position can be.
StrOrder == <<"", "1", "3">>

str_lt(a, b) ==
    \E i, j \in 1..Len(StrOrder) : StrOrder[i] = a /\ StrOrder[j] = b /\ i < j

\* key=lambda x: (x.get('details', {}).get('seat_position', ''),
\*                x.get('passenger_num', 0))  (main-backup1.py:1863-1866)
sort_key(x) == <<dict_get(x.details, "seat_position", ""), x.passenger_num>>

\* tuple comparison
key_le(k1, k2) == str_lt(k1[1], k2[1]) \/ (k1[1] = k2[1] /\ k1[2] <= k2[2])

\* list.sort by (details.seat_position, passenger_num): with empty details
\* the key is ('', passenger_num); an insertion sort, stable as Python's.
RECURSIVE insert_by_passenger_num(_, _)
insert_by_passenger_num(sorted, x) ==
    IF sorted = <<>> THEN <<x>>
    ELSE IF key_le(sort_key(sorted[Len(sorted)]), sort_key(x))
    THEN Append(sorted, x)
    ELSE Append(insert_by_passenger_num(SubSeq(sorted, 1, Len(sorted) - 1), x),
                sorted[Len(sorted)])

sort_passengers(passengers) ==
    FoldLeft(LAMBDA sorted, x : insert_by_passenger_num(sorted, x), <<>>, passengers)

\* main-backup1.py:1835-1871
process_person_data(vehicle_data) ==
    LET st == FoldLeft(
                LAMBDA acc, person :
                    LET info == person_info(person)
                    IN  IF "type_code" \in DOMAIN info /\ info["type_code"] = "1"
                        THEN [acc EXCEPT !.driver = info]
                        ELSE [acc EXCEPT
                                !.passenger_count = @ + 1,
                                !.passengers =
                                    Append(@, dict_set(info, "passenger_num",
                                                       acc.passenger_count + 1))],
                [driver |-> PyNone, passengers |-> <<>>, passenger_count |-> 0],
                dict_get(vehicle_data.child_fields, "person_num", <<>>))
    IN  [driver |-> st.driver, passengers |-> sort_passengers(st.passengers)]

(***************************************************************************)
(* The driver specification: one vehicle unit with up to MaxPersons        *)
(* persons, each with a name of its own and person_type "1", "2" or none,  *)
(* processed in the order given and in a permuted order.                   *)
(***************************************************************************)
MaxPersons == 3

PersonCodes == {"1", "2", ""}

person_record(k, code) ==
    [value |-> ToStr(k),
     entities |-> << [type |-> "person_name", value |-> "P" \o ToStr(k)] >>
                  \o (IF code = "" THEN <<>>
                      ELSE << [type |-> "person_type", value |-> code] >>)]

vehicle_with(persons) ==
    [type |-> "vehicle_driver_persons", child_fields |-> [person_num |-> persons]]

Orders(n) ==
    { f \in [1..n -> 1..n] : \A i, j \in 1..n : i # j => f[i] # f[j] }

InitDriver ==
    /\ \E n \in 1..MaxPersons :
          \E codes \in [1..n -> PersonCodes], f \in Orders(n) :
              /\ dr_persons = [k \in 1..n |-> person_record(k, codes[k])]
              /\ dr_permuted = [k \in 1..n |-> person_record(f[k], codes[f[k]])]
    /\ dr_pc = "call"
    /\ dr_processed = <<>>
    /\ dr_people = <<>>
    /\ dr_driver_name = <<>>
    /\ LookupIdle
    /\ SectionIdle
    /\ PagesIdle
    /\ AddressIdle
    /\ PersonIdle
    /\ LinkIdle
    /\ TreeIdle
    /\ CheckboxIdle
    /\ GeocodeIdle
    /\ SheetsIdle
    /\ RetryIdle
    /\ RunIdle
    /\ PathIdle
    /\ SeatIdle
    /\ PoolIdle
    /\ OrderIdle
    /\ OtherIdle
    /\ RunsIdle
    /\ CleanupIdle

\* The unit's persons processed twice, in the two orders: by
\* process_person_data, by the People section of the unit view and by the
\* driver search that names the unit's sheet.
ProcessPersons ==
    /\ dr_pc = "call"
    /\ dr_processed' = << process_person_data(vehicle_with(dr_persons)),
                          process_person_data(vehicle_with(dr_permuted)) >>
    /\ dr_people' = << people_rows(vehicle_with(dr_persons)),
                       people_rows(vehicle_with(dr_permuted)) >>
    /\ dr_driver_name' = << driver_name_of(vehicle_with(dr_persons)),
                            driver_name_of(vehicle_with(dr_permuted)) >>
    /\ dr_pc' = "returned"
    /\ UNCHANGED <<dr_persons, dr_permuted>>
    /\ UNCHANGED driverFrame

NextDriver == ProcessPersons

SpecDriver == InitDriver /\ [][NextDriver]_vars

PersonName(person) == first_value(person.entities, "person_name", "")

PersonCode(person) == first_value(person.entities, "person_type", "")

\* The names process_person_data reports as driver and as passengers.
DriverNames(processed_data) ==
    IF processed_data.driver = PyNone THEN {} ELSE {processed_data.driver["name"]}

PassengerNames(processed_data) ==
    {processed_data.passengers[i]["name"] : i \in 1..Len(processed_data.passengers)}

\* The names the People section heads with "Driver Information".
DriverRows(rows) ==
    {rows[r][2] : r \in {r \in 2..Len(rows) :
                            /\ rows[r][1] = "Name"
                            /\ rows[r - 1] = <<"Driver Information", "">>}}

PassengerRows(rows) ==
    {rows[r][2] : r \in {r \in 2..Len(rows) :
                            /\ rows[r][1] = "Name"
                            /\ rows[r - 1] = <<"Passenger Information", "">>}}

CodedDrivers == {PersonName(dr_persons[k]) : k \in {k \in 1..Len(dr_persons) : PersonCode(dr_persons[k]) = "1"}}

CodedOthers == {PersonName(dr_persons[k]) : k \in {k \in 1..Len(dr_persons) : PersonCode(dr_persons[k]) # "1"}}

\* C13: within a vehicle unit a person is treated as driver if and only if
\* the person's person_type code is "1", and as passenger otherwise, and
\* permuting the unit's person_num entries changes neither set nor the
\* driver the unit's sheet is named after; stated of process_person_data
\* and of the unit view.
C13_DriverByCode ==
    dr_pc = "returned" =>
        /\ \A o \in 1..2 :
              /\ DriverNames(dr_processed[o]) = CodedDrivers
              /\ PassengerNames(dr_processed[o]) = CodedOthers
              /\ DriverRows(dr_people[o]) = CodedDrivers
              /\ PassengerRows(dr_people[o]) = CodedOthers
        /\ DriverNames(dr_processed[1]) = DriverNames(dr_processed[2])
        /\ DriverRows(dr_people[1]) = DriverRows(dr_people[2])
        /\ dr_driver_name[1] = dr_driver_name[2]

\* The People section of the unit view alone classifies by code.
C13_PeopleSectionByCode ==
    dr_pc = "returned" =>
        \A o \in 1..2 :
            /\ DriverRows(dr_people[o]) = CodedDrivers
            /\ PassengerRows(dr_people[o]) = CodedOthers

(***************************************************************************)
(* The page tree: the loop of process_document_page_by_page that turns the *)
(* sections of a processed page into hierarchical_fields                   *)
(* (src/main.py:1060-1102).  A dict is the sequence of its items in        *)
(* insertion order; child_fields items are [type, entries].                *)
(***************************************************************************)
\* entity_entry of main.py:1091-1095
entity_entry(grandchild) ==
    [type |-> grandchild.type, value |-> grandchild.value,
     confidence |-> grandchild.confidence]

\* child_entry of main.py:1082-1096
child_entry(child) ==
    [type |-> child.type, value |-> child.value, confidence |-> child.confidence,
     entities |-> [g \in 1..Len(child.child_entities) |->
                      entity_entry(child.child_entities[g])]]

\* A child put in front of the entries of its type.
add_child_front(child_fields, child) ==
    IF \E i \in 1..Len(child_fields) : child_fields[i].type = child.type
    THEN [i \in 1..Len(child_fields) |->
            IF child_fields[i].type = child.type
            THEN [child_fields[i] EXCEPT !.entries = <<child_entry(child)>> \o @]
            ELSE child_fields[i]]
    ELSE Append(child_fields, [type |-> child.type, entries |-> <<child_entry(child)>>])

\* main.py:1078-1099 for one child: a new key goes last, the child goes
\* last in the list of its key.
add_child(child_fields, child) ==
    IF \E i \in 1..Len(child_fields) : child_fields[i].type = child.type
    THEN [i \in 1..Len(child_fields) |->
            IF child_fields[i].type = child.type
            THEN [child_fields[i] EXCEPT !.entries = Append(@, child_entry(child))]
            ELSE child_fields[i]]
    ELSE Append(child_fields, [type |-> child.type, entries |-> <<child_entry(child)>>])

\* parent_entry of main.py:1069-1099
parent_entry(entity) ==
    [type |-> entity.type, value |-> entity.value, confidence |-> entity.confidence,
     child_fields |-> FoldLeft(add_child, <<>>, entity.child_entities)]

\* One ParentRecord per type: a later field replaces an earlier one of its type.
parent_entries_by_type(entities) ==
    LET last == {i \in 1..Len(entities) :
                    \A j \in (i + 1)..Len(entities) : entities[j].type # entities[i].type}
    IN  [n \in 1..Cardinality(last) |->
            parent_entry(entities[CHOOSE i \in last :
                                     Cardinality({j \in last : j <= i}) = n])]

\* main.py:1068-1102: the entries of one section, in the order of its list.
parent_entries(entities) == [i \in 1..Len(entities) |-> parent_entry(entities[i])]

\* main.py:1060-1102: hierarchical_fields of a processed page; a section
\* with no entity gets no key.
hierarchical_fields(processed) ==
    [section \in {s \in DOMAIN processed.sections : processed.sections[s] # <<>>} |->
        parent_entries(processed.sections[section])]

(***************************************************************************)
(* The tree specification: one OCR document of up to MaxFields top-level   *)
(* fields, the first with up to MaxChildren properties and the others with *)
(* at most one, of two types, one of them written with a capital and a     *)
(* space and the other carrying a subproperty; every value names its       *)
(* place in the document.                                                  *)
(***************************************************************************)
MaxFields == 2

MaxChildren == 3

\* "Unit Num"
T_Unit_Num == <<"U", "n", "i", "t", " ", "N", "u", "m">>

\* "person_num"
T_person_num == <<"p", "e", "r", "s", "o", "n", "_", "n", "u", "m">>

\* "person_name"
T_person_name == <<"p", "e", "r", "s", "o", "n", "_", "n", "a", "m", "e">>

FieldTypes == {S_vehicle_driver_persons, S_charges, T_unknown_garbage}

ChildTypes == {T_Unit_Num, T_person_num}

ocr_child(k, j, type_) ==
    IF type_ = T_person_num
    THEN [type_ |-> type_, mention_text |-> "e" \o ToStr(k) \o "c" \o ToStr(j),
          confidence |-> 90,
          properties |-> << [type_ |-> T_person_name,
                             mention_text |-> "e" \o ToStr(k) \o "c" \o ToStr(j) \o "g",
                             confidence |-> 80] >>]
    ELSE [type_ |-> type_, mention_text |-> "e" \o ToStr(k) \o "c" \o ToStr(j),
          confidence |-> 90]

ocr_entity(k, type_, child_types) ==
    [type_ |-> type_, mention_text |-> "e" \o ToStr(k), confidence |-> 95,
     properties |-> [j \in 1..Len(child_types) |-> ocr_child(k, j, child_types[j])]]

InitTree ==
    /\ \E n \in 0..MaxFields :
          \E types \in [1..n -> FieldTypes],
             children \in [1..n -> BoundedSeq(ChildTypes, MaxChildren)] :
              /\ \A k \in 2..n : Len(children[k]) <= 1
              /\ tr_entities = [k \in 1..n |-> ocr_entity(k, types[k], children[k])]
    /\ tr_pc = "call"
    /\ tr_hierarchical_fields = <<>>
    /\ LookupIdle
    /\ SectionIdle
    /\ PagesIdle
    /\ AddressIdle
    /\ PersonIdle
    /\ LinkIdle
    /\ DriverIdle
    /\ CheckboxIdle
    /\ GeocodeIdle
    /\ SheetsIdle
    /\ RetryIdle
    /\ RunIdle
    /\ PathIdle
    /\ SeatIdle
    /\ PoolIdle
    /\ OrderIdle
    /\ OtherIdle
    /\ RunsIdle
    /\ CleanupIdle

\* One page through _document_to_dict and the hierarchical_fields loop.
BuildTree ==
    /\ tr_pc = "call"
    /\ tr_hierarchical_fields' = hierarchical_fields(_document_to_dict("t", tr_entities))
    /\ tr_pc' = "returned"
    /\ UNCHANGED tr_entities
    /\ UNCHANGED treeFrame

NextTree == BuildTree

SpecTree == InitTree /\ [][NextTree]_vars

\* The n-th smallest member of a set of indices.
Nth(idx, n) == CHOOSE i \in idx : Cardinality({j \in idx : j <= i}) = n

\* The members of s at the indices idx, in the order of s.
Pick(s, idx) == [n \in 1..Cardinality(idx) |-> s[Nth(idx, n)]]

NormalType(type_) == replace(lower(type_), " ", "_")

\* The top-level fields of section s, as indices of the document, and the
\* section's output list (empty for a section without key).
FieldsOf(s) == {k \in 1..Len(tr_entities) : _get_entity_section(tr_entities[k].type_) = s}

OutputOf(s) ==
    IF s \in DOMAIN tr_hierarchical_fields THEN tr_hierarchical_fields[s] ELSE <<>>

\* C14: in every ParentRecord the keys of child_fields are the parent's
\* child types in first-seen order, and child_fields[type] lists exactly
\* the parent's children of that type in the order the OCR returned them.
C14_ChildOrder ==
    tr_pc = "returned" =>
        \A s \in SectionNames :
            \A p \in 1..Len(OutputOf(s)) :
                LET children == tr_entities[Nth(FieldsOf(s), p)].properties
                    cf == OutputOf(s)[p].child_fields
                    first_seen ==
                        {j \in 1..Len(children) :
                            \A i \in 1..(j - 1) : children[i].type_ # children[j].type_}
                IN  /\ [i \in 1..Len(cf) |-> cf[i].type]
                         = [n \in 1..Cardinality(first_seen) |->
                              NormalType(children[Nth(first_seen, n)].type_)]
                    /\ \A i \in 1..Len(cf) :
                          [e \in 1..Len(cf[i].entries) |-> cf[i].entries[e].value]
                            = LET of_type == {j \in 1..Len(children) :
                                                NormalType(children[j].type_) = cf[i].type}
                              IN  [n \in 1..Cardinality(of_type) |->
                                      children[Nth(of_type, n)].mention_text]

C14_Witness ==
    /\ tr_pc = "returned"
    /\ Len(OutputOf(S_vehicle_driver_persons)) = 1
    /\ LET cf == OutputOf(S_vehicle_driver_persons)[1].child_fields
       IN  /\ Len(cf) = 2
           /\ cf[1].type = T_person_num
           /\ Len(cf[1].entries) = 2
           /\ cf[1].entries[1].value = "e1c1"
           /\ cf[1].entries[2].value = "e1c3"
           /\ cf[2].entries[1].value = "e1c2"

\* C15: for each section, the section's output list is exactly the sequence
\* of top-level fields assigned to the section, in document order, one
\* ParentRecord per field also when fields share a type.
C15_OneRecordPerField ==
    tr_pc = "returned" =>
        \A s \in SectionNames :
            /\ Len(OutputOf(s)) = Cardinality(FieldsOf(s))
            /\ \A p \in 1..Len(OutputOf(s)) :
                  /\ OutputOf(s)[p].value = tr_entities[Nth(FieldsOf(s), p)].mention_text
                  /\ OutputOf(s)[p].type = NormalType(tr_entities[Nth(FieldsOf(s), p)].type_)

C15_Witness ==
    /\ tr_pc = "returned"
    /\ Len(tr_entities) = 2
    /\ tr_entities[1].type_ = S_vehicle_driver_persons
    /\ tr_entities[2].type_ = S_vehicle_driver_persons
    /\ Len(OutputOf(S_vehicle_driver_persons)) = 2
    /\ OutputOf(S_vehicle_driver_persons)[1].value = "e1"
    /\ OutputOf(S_vehicle_driver_persons)[2].value = "e2"

\* The detail values a unit's worksheet shows for one linked section, in
\* the order of its rows.
DetailValues(sheet, ls) ==
    LET shown == SelectSeq(sheet.rows, LAMBDA row : row[1] = ls.label)
    IN  [r \in 1..Len(shown) |-> shown[r][2]]

\* The records of a linked section whose reference is the unit's unit_num.
Referring(records, ls, unit_num) ==
    {k \in 1..Len(records) :
        first_value(RecordEntities(records[k], ls), ls.ref_type, "") = unit_num}

\* C16: when several records of one section carry the same unit number,
\* the unit's view shows every one of them, each exactly once, in the
\* order they occur in the document.
C16_DuplicatesInOrder ==
    ln_pc = "returned" =>
        \A u \in 1..Len(ln_worksheets) :
            LET unit_data == ln_page.hierarchical_fields.vehicle_driver_persons[u]
            IN  HasUnitNum(unit_data) =>
                \A ls \in LinkedSections :
                    LET records == ln_page.hierarchical_fields[ls.section]
                        idx == Referring(records, ls, unit_data.child_fields.unit_num[1].value)
                    IN  DetailValues(ln_worksheets[u], ls)
                          = [n \in 1..Cardinality(idx) |->
                                first_value(RecordEntities(records[Nth(idx, n)], ls),
                                            ls.detail, "")]

C16_Witness ==
    /\ ln_pc = "returned"
    /\ Len(ln_page.hierarchical_fields.charges) = 2
    /\ Len(ln_page.hierarchical_fields.factors_conditions) = 2
    /\ ln_worksheets[1].sheet_name = "Unit 2 - Unknown Driver"
    /\ DetailValues(ln_worksheets[1],
                    CHOOSE ls \in LinkedSections : ls.section = "charges") = <<"C1", "C2">>
    /\ DetailValues(ln_worksheets[1],
                    CHOOSE ls \in LinkedSections : ls.section = "factors_conditions")
          = <<"F1", "F2">>

(***************************************************************************)
(* The checkbox specification: one call of match_string_for_boolean        *)
(* (src/main.py:336-341) with a lowercased field type, in the checkbox     *)
(* list or not, and a raw value of up to MaxValueLen characters drawn from *)
(* the glyph, two letters and a digit.                                     *)
(***************************************************************************)
MaxValueLen == 3

ValueChars == {CheckedBox, "I", "H", "1"}

CheckboxInputTypes ==
    elgible_type \cup {"rdwy_sys", "weather_cond", "unit_num", "crash_date"}

InitCheckbox ==
    /\ cb_types \in CheckboxInputTypes
    /\ cb_string \in BoundedSeq(ValueChars, MaxValueLen)
    /\ cb_pc = "call"
    /\ cb_ret = PyUnset
    /\ LookupIdle
    /\ SectionIdle
    /\ PagesIdle
    /\ AddressIdle
    /\ PersonIdle
    /\ LinkIdle
    /\ DriverIdle
    /\ TreeIdle
    /\ GeocodeIdle
    /\ SheetsIdle
    /\ RetryIdle
    /\ RunIdle
    /\ PathIdle
    /\ SeatIdle
    /\ PoolIdle
    /\ OrderIdle
    /\ OtherIdle
    /\ RunsIdle
    /\ CleanupIdle

MatchStringForBoolean ==
    /\ cb_pc = "call"
    /\ cb_ret' = match_string_for_boolean(cb_types, cb_string)
    /\ cb_pc' = "returned"
    /\ UNCHANGED <<cb_types, cb_string>>
    /\ UNCHANGED checkboxFrame

NextCheckbox == MatchStringForBoolean

SpecCheckbox == InitCheckbox /\ [][NextCheckbox]_vars

\* The fixed checkbox set: outside city limit, crash damage over the
\* threshold, owner/lessee indicator, proof of financial responsibility,
\* investigation complete.
CheckboxTypes ==
    { "outside_city_limit", "crash_damage_1000", "owner_lesse_tick_box",
      "proof_of_fin_resp", "investigation_complete" }

HasGlyph(string) == \E i \in 1..Len(string) : string[i] = CheckedBox

C17_WitnessOther ==
    /\ cb_pc = "returned"
    /\ cb_types = "rdwy_sys"
    /\ cb_string = <<"I", "H">>
    /\ cb_ret = PyStr("Interstate")

(***************************************************************************)
(* Geocoding: Geocoding.call of src/geocoding.py:4-23 and its call in the  *)
(* General Information pass of save_excel_to_gcs (src/main.py:476-499),    *)
(* inside the try of lines 418-801.  An operator that can raise returns    *)
(* [exc |-> name of the exception] or [exc |-> "", ret |-> value].         *)
(***************************************************************************)
Raise(exception) == [exc |-> exception, ret |-> <<>>]

Return(value) == [exc |-> "", ret |-> value]

\* One dict of extract_location_details (geocoding.py:59-67), as its items.
location_details(i) ==
    << <<"county_full", PyStr("County " \o ToStr(i))>>,
       <<"county_short", PyStr("C" \o ToStr(i))>>,
       <<"county_fisp_code", PyNone>>,
       <<"state", PyStr("TX")>>,
       <<"latitude", PyStr("30." \o ToStr(i))>>,
       <<"longitude", PyStr("-97." \o ToStr(i))>>,
       <<"location_type", PyStr("APPROXIMATE")>> >>

\* geocoding.py:25-69 for a response with n results.
extract_location_details(n) == [i \in 1..n |-> location_details(i)]

\* The parameters of `def call(self, address)`, geocoding.py:4.
call_parameters == <<"self", "address">>

\* Geocoding.call(*args), geocoding.py:4-23: Python binds the positional
\* arguments to the parameters first and raises TypeError when their
\* numbers differ; status and n are the response of requests.get.
geocoding_call(args, status, n) ==
    IF Len(args) # Len(call_parameters) THEN Raise("TypeError")
    ELSE IF status = 200 THEN Return(extract_location_details(n))
    ELSE Return(PyNone)

eligible_geocoding == {"country_name"}

\* `for geocode in geocode_res` / `for key, value in geocode.items()`,
\* main.py:489-499: iterating None raises TypeError.
geocode_rows(page_num, geocode_res) ==
    IF geocode_res = PyNone THEN Raise("TypeError")
    ELSE Return(
           FoldLeft(
             LAMBDA rows, geocode :
                rows \o [k \in 1..Len(geocode) |->
                           [Page |-> page_num, Level |-> "Field", Type |-> geocode[k][1],
                            Value |-> geocode[k][2], Confidence |-> ""]],
             <<>>, geocode_res))

\* main.py:476-499 for one entry of a general_info field: the field's row,
\* then for an eligible type the geocoder's rows.
general_field_rows(page_num, child_type, entry, status, n) ==
    IF child_type \notin eligible_geocoding
    THEN Return(<<field_row(page_num, child_type, entry)>>)
    ELSE LET geocode_res == geocoding_call(<<"geocoding", child_type, entry.value>>, status, n)
         IN  IF geocode_res.exc # "" THEN Raise(geocode_res.exc)
             ELSE LET more == geocode_rows(page_num, geocode_res.ret)
                  IN  IF more.exc # "" THEN Raise(more.exc)
                      ELSE Return(<<field_row(page_num, child_type, entry)>> \o more.ret)

(***************************************************************************)
(* The geocoding specification: one general_info field of one record, and  *)
(* the answer the geocoder would give.                                     *)
(***************************************************************************)
MaxResults == 2

HttpStatus == {200, 403, 500}

V_Travis == <<"T", "r", "a", "v", "i", "s">>

V_Bexar == <<"B", "e", "x", "a", "r">>

InitGeocode ==
    /\ gc_child_type \in {"country_name", "city_name", "crash_date"}
    /\ gc_entry \in [value : {V_Travis, V_Bexar, <<>>}, confidence : {95}]
    /\ gc_status \in HttpStatus
    /\ gc_results \in 0..MaxResults
    /\ gc_pc = "call"
    /\ gc_rows = <<>>
    /\ gc_exception = ""
    /\ LookupIdle
    /\ SectionIdle
    /\ PagesIdle
    /\ AddressIdle
    /\ PersonIdle
    /\ LinkIdle
    /\ DriverIdle
    /\ TreeIdle
    /\ CheckboxIdle
    /\ SheetsIdle
    /\ RetryIdle
    /\ RunIdle
    /\ PathIdle
    /\ SeatIdle
    /\ PoolIdle
    /\ OrderIdle
    /\ OtherIdle
    /\ RunsIdle
    /\ CleanupIdle

\* The field is rendered and the try body goes on.
RenderGeneralField ==
    /\ gc_pc = "call"
    /\ LET res == general_field_rows(1, gc_child_type, gc_entry, gc_status, gc_results)
       IN  /\ res.exc = ""
           /\ gc_rows' = res.ret
           /\ gc_pc' = "rendered"
    /\ UNCHANGED <<gc_child_type, gc_entry, gc_status, gc_results, gc_exception>>
    /\ UNCHANGED geocodeFrame

\* Rendering the field raises: control goes to the except clause.
RenderGeneralFieldRaises ==
    /\ gc_pc = "call"
    /\ LET res == general_field_rows(1, gc_child_type, gc_entry, gc_status, gc_results)
       IN  /\ res.exc # ""
           /\ gc_exception' = res.exc
           /\ gc_pc' = "except"
    /\ UNCHANGED <<gc_child_type, gc_entry, gc_status, gc_results, gc_rows>>
    /\ UNCHANGED geocodeFrame

\* main.py:797-802: the except clause reports, removes the temporary file
\* and raises again; the exception leaves save_excel_to_gcs.
ExceptReraise ==
    /\ gc_pc = "except"
    /\ gc_pc' = "raised"
    /\ UNCHANGED <<gc_child_type, gc_entry, gc_status, gc_results, gc_rows, gc_exception>>
    /\ UNCHANGED geocodeFrame

NextGeocode == RenderGeneralField \/ RenderGeneralFieldRaises \/ ExceptReraise

SpecGeocode == InitGeocode /\ [][NextGeocode]_vars

\* C18: when the geocoder call for a geocoding-eligible field fails with a
\* non-200 response, rendering goes on: the field's own row is produced, no
\* augmentation row is added, and no exception leaves the renderer.
C18_GeocoderFailureNotFatal ==
    (gc_child_type \in eligible_geocoding /\ gc_status # 200 /\ gc_pc # "call") =>
        /\ gc_pc = "rendered"
        /\ gc_exception = ""
        /\ gc_rows = <<field_row(1, gc_child_type, gc_entry)>>

(***************************************************************************)
(* Sheet names: the names save_excel_to_gcs gives its sheets and what the  *)
(* workbook does with a name it already holds.  In src/main-backup.py the  *)
(* sheets are made by xlsxwriter's Workbook.add_worksheet, which raises    *)
(* DuplicateWorksheetName for a name in use; in src/main.py they are       *)
(* written by DataFrame.to_excel, which writes into the sheet of that name *)
(* when the writer already holds one.                                      *)
(***************************************************************************)
\* main.py:437
location_sheet_name(page_num, parent_idx) ==
    truncate("P" \o ToStr(page_num) \o "_identification_location_" \o ToStr(parent_idx),
             SheetNameLimit)

\* main.py:611
vehicle_sheet_name(page_num, parent_idx) ==
    truncate("P" \o ToStr(page_num) \o "_vehicle_driver_" \o ToStr(parent_idx),
             SheetNameLimit)

\* main.py:722-728: the tracker of a parent type counts the times the type
\* came up in the page's loop.
other_sheet_name(page_num, parent_type, tracker) ==
    truncate("P" \o ToStr(page_num) \o "_" \o parent_type \o "_" \o ToStr(tracker),
             SheetNameLimit)

\* The sheet names one page writes, in the order of the writes
\* (main.py:432-779); parents lists the page's hierarchical_fields items as
\* [parent_type, n] with n the number of the type's records.
page_sheet_names(page_num, parents) ==
    FoldLeft(
        LAMBDA names, parent :
            IF parent.parent_type = "identification_location"
            THEN names \o [i \in 1..parent.n |-> location_sheet_name(page_num, i)]
            ELSE IF parent.parent_type = "vehicle_driver_persons"
            THEN names \o [i \in 1..parent.n |-> vehicle_sheet_name(page_num, i)]
            ELSE Append(names, other_sheet_name(page_num, parent.parent_type, 1)),
        <<>>, parents)

\* df.to_excel(writer, sheet_name=...) for each name in turn: the sheets of
\* the workbook, each holding the number of the write that filled it last.
to_excel_all(names) ==
    [name \in {names[w] : w \in 1..Len(names)} |->
        CHOOSE w \in 1..Len(names) :
            names[w] = name /\ \A v \in (w + 1)..Len(names) : names[v] # name]

\* workbook.add_worksheet(name) for each name in turn: the names added, and
\* the exception of the first name already in use.
RECURSIVE add_worksheets(_, _)
add_worksheets(added, names) ==
    IF names = <<>> THEN [names |-> added, exc |-> ""]
    ELSE IF \E i \in 1..Len(added) : added[i] = names[1]
    THEN [names |-> added, exc |-> "DuplicateWorksheetName"]
    ELSE add_worksheets(Append(added, names[1]), Tail(names))

\* main-backup.py:457-483 over every unit of every page of the document.
unit_sheet_names(pages) ==
    FoldLeft(
        LAMBDA names, page :
            names \o [u \in 1..Len(section_records(page, "vehicle_driver_persons")) |->
                        unit_sheet_name(section_records(page, "vehicle_driver_persons")[u])],
        <<>>, pages)

(***************************************************************************)
(* The sheets specification.  A unit workbook: one or two pages of up to   *)
(* MaxUnits units, each unit with unit_num "1", "2" or none and a driver   *)
(* named or not.  A section workbook: one page, numbered 1 or 1000, with   *)
(* a disposition_of_injured_killed record, some identification_location    *)
(* records and one or two vehicle units.                                   *)
(***************************************************************************)
MaxUnits == 2

BookDrivers == {"", "Al"}

unit_with_driver(unit_num, driver) ==
    [type |-> "vehicle_driver_persons",
     child_fields |->
        LET with_unit == IF unit_num = "" THEN EmptyDict
                         ELSE dict_set(EmptyDict, "unit_num",
                                       << [value |-> unit_num, entities |-> <<>>] >>)
        IN  IF driver = "" THEN with_unit
            ELSE dict_set(with_unit, "person_num",
                          << [value |-> "1",
                              entities |-> << [type |-> "person_type", value |-> "1"],
                                              [type |-> "person_name", value |-> driver] >>] >>)]

UnitPages(max) ==
    { [hierarchical_fields |->
          [vehicle_driver_persons |->
              [u \in 1..Len(us) |-> unit_with_driver(us[u][1], us[u][2])]]] :
        us \in UNION { [1..n -> (UnitRefs \cup {""}) \X BookDrivers] : n \in 1..max } }

PageNumbersOfBook == {1, 1000}

LocationCounts == {0, 1, 2, 11}

InitSheets ==
    /\ \E first \in UnitPages(MaxUnits), more \in {<<>>} \cup {<<p>> : p \in UnitPages(1)} :
          sh_unit_pages = <<first>> \o more
    /\ sh_unit_pc = "call"
    /\ sh_unit_book = <<>>
    /\ \E page_number \in PageNumbersOfBook, nl \in LocationCounts, nv \in 1..MaxUnits :
          sh_page =
            [page_number |-> page_number,
             parents |->
                << [parent_type |-> "disposition_of_injured_killed", n |-> 1] >>
                \o (IF nl = 0 THEN <<>>
                    ELSE << [parent_type |-> "identification_location", n |-> nl] >>)
                \o << [parent_type |-> "vehicle_driver_persons", n |-> nv] >>]
    /\ sh_pc = "call"
    /\ sh_book = <<>>
    /\ LookupIdle
    /\ SectionIdle
    /\ PagesIdle
    /\ AddressIdle
    /\ PersonIdle
    /\ LinkIdle
    /\ DriverIdle
    /\ TreeIdle
    /\ CheckboxIdle
    /\ GeocodeIdle
    /\ RetryIdle
    /\ RunIdle
    /\ PathIdle
    /\ SeatIdle
    /\ PoolIdle
    /\ OrderIdle
    /\ OtherIdle
    /\ RunsIdle
    /\ CleanupIdle

\* save_excel_to_gcs of main-backup.py adds the units' worksheets; a
\* duplicate name raises and the except clause raises again
\* (main-backup.py:676-678).
WriteUnitBook ==
    /\ sh_unit_pc = "call"
    /\ sh_unit_book' = add_worksheets(<<>>, unit_sheet_names(sh_unit_pages))
    /\ sh_unit_pc' = IF sh_unit_book'.exc = "" THEN "returned" ELSE "raised"
    /\ UNCHANGED <<sh_unit_pages, sh_page, sh_pc, sh_book>>
    /\ UNCHANGED sheetsFrame

\* save_excel_to_gcs of main.py writes the page's sheets.
WriteSectionBook ==
    /\ sh_pc = "call"
    /\ sh_book' =
          LET names == page_sheet_names(sh_page.page_number, sh_page.parents)
          IN  [writes |-> names, sheets |-> to_excel_all(names)]
    /\ sh_pc' = "returned"
    /\ UNCHANGED <<sh_unit_pages, sh_unit_pc, sh_unit_book, sh_page>>
    /\ UNCHANGED sheetsFrame

NextSheets == WriteUnitBook \/ WriteSectionBook

SpecSheets == InitSheets /\ [][NextSheets]_vars

\* C19: within one workbook any two distinct sheets written by
\* save_excel_to_gcs have distinct names after the cut to 31 characters:
\* every sheet written is a sheet of its own in the workbook, none
\* overwrites another and the export is not aborted.
C19_SheetNamesDistinct ==
    /\ sh_unit_pc # "raised"
    /\ sh_unit_pc = "returned" =>
          /\ Len(sh_unit_book.names) = Len(unit_sheet_names(sh_unit_pages))
          /\ \A i, j \in 1..Len(sh_unit_book.names) :
                i # j => sh_unit_book.names[i] # sh_unit_book.names[j]
    /\ sh_pc = "returned" =>
          Cardinality(DOMAIN sh_book.sheets) = Len(sh_book.writes)

\* The section workbook alone, for pages numbered below 1000.
C19_SectionBookShortPageNumbers ==
    (sh_pc = "returned" /\ sh_page.page_number < 1000) =>
        Cardinality(DOMAIN sh_book.sheets) = Len(sh_book.writes)

(***************************************************************************)
(* Page retry: process_page_with_retry of src/main-backup1.py:943-976, the *)
(* closure process_document_page_by_page submits to the executor for each  *)
(* page.  process_page is the OCR call; it returns the processed page or   *)
(* raises (main-backup1.py:174-176).  rt_trace records the calls of        *)
(* process_page with their outcome and the calls of time.sleep.            *)
(***************************************************************************)
\* main-backup1.py:971, mistaken: no attempt is taken for the last one
last_retry_never(attempt, max_retries) == FALSE

\* if attempt == max_retries - 1 (main-backup1.py:971)
last_retry(attempt, max_retries) == attempt = max_retries - 1

\* for attempt in range(max_retries): the loop has another round
in_range(attempt, max_retries) == attempt < max_retries

MaxRetries == 3

RetryDelays == {0, 5}

RetryPages == 1..2

\* what process_page returns, and what it raises
OcrPages == { [text |-> t, sections |-> <<>>] : t \in {"a", "b"} }

OcrErrors == {"DeadlineExceeded", "InvalidArgument"}

\* what _document_to_dict raises on a document process_document returned
ConversionErrors == {"AttributeError"}

InitRetry ==
    /\ rt_max_retries \in 0..MaxRetries
    /\ rt_retry_delay \in RetryDelays
    /\ rt_page_num \in RetryPages
    /\ rt_attempt = 0
    /\ rt_pc = "for"
    /\ rt_trace = <<>>
    /\ rt_ret = <<>>
    /\ LookupIdle
    /\ SectionIdle
    /\ PagesIdle
    /\ AddressIdle
    /\ PersonIdle
    /\ LinkIdle
    /\ DriverIdle
    /\ TreeIdle
    /\ CheckboxIdle
    /\ GeocodeIdle
    /\ SheetsIdle
    /\ RunIdle
    /\ PathIdle
    /\ SeatIdle
    /\ PoolIdle
    /\ OrderIdle
    /\ OtherIdle
    /\ RunsIdle
    /\ CleanupIdle

\* the loop header takes the next attempt (main-backup1.py:954)
ForAttempt ==
    /\ rt_pc = "for"
    /\ in_range(rt_attempt, rt_max_retries)
    /\ rt_pc' = "try"
    /\ UNCHANGED <<rt_max_retries, rt_retry_delay, rt_page_num, rt_attempt,
                   rt_trace, rt_ret>>
    /\ UNCHANGED retryFrame

\* the loop is over and the function falls off its end: it returns None
ForExhausted ==
    /\ rt_pc = "for"
    /\ ~in_range(rt_attempt, rt_max_retries)
    /\ rt_pc' = "returned"
    /\ rt_ret' = Return(PyNone)
    /\ UNCHANGED <<rt_max_retries, rt_retry_delay, rt_page_num, rt_attempt,
                   rt_trace>>
    /\ UNCHANGED retryFrame

\* process_page returns and its result is returned (main-backup1.py:959-965)
AttemptReturns ==
    /\ rt_pc = "try"
    /\ \E page \in OcrPages :
          /\ rt_trace' = Append(rt_trace, [ev |-> "attempt", ok |-> TRUE, val |-> page])
          /\ rt_ret' = Return(page)
    /\ rt_pc' = "returned"
    /\ UNCHANGED <<rt_max_retries, rt_retry_delay, rt_page_num, rt_attempt>>
    /\ UNCHANGED retryFrame

\* process_page raises: the except clause raises again after the last
\* attempt and goes on to the sleep otherwise (main-backup1.py:967-973)
AttemptRaises ==
    /\ rt_pc = "try"
    /\ \E e \in OcrErrors :
          /\ rt_trace' = Append(rt_trace, [ev |-> "attempt", ok |-> FALSE, val |-> e])
          /\ IF last_retry(rt_attempt, rt_max_retries)
             THEN /\ rt_pc' = "raised"
                  /\ rt_ret' = Raise(e)
             ELSE /\ rt_pc' = "sleep"
                  /\ rt_ret' = rt_ret
    /\ UNCHANGED <<rt_max_retries, rt_retry_delay, rt_page_num, rt_attempt>>
    /\ UNCHANGED retryFrame

\* process_document returns and _document_to_dict raises inside the same
\* try of process_page, whose except clause raises again
\* (main-backup1.py:160-176); process_page_with_retry handles the exception
\* as it handles every other (main-backup1.py:967-976)
ConversionRaises ==
    /\ rt_pc = "try"
    /\ \E e \in ConversionErrors :
          /\ rt_trace' = Append(rt_trace, [ev |-> "attempt", ok |-> FALSE, val |-> e])
          /\ IF last_retry(rt_attempt, rt_max_retries)
             THEN /\ rt_pc' = "raised"
                  /\ rt_ret' = Raise(e)
             ELSE /\ rt_pc' = "sleep"
                  /\ rt_ret' = rt_ret
    /\ UNCHANGED <<rt_max_retries, rt_retry_delay, rt_page_num, rt_attempt>>
    /\ UNCHANGED retryFrame

\* time.sleep(retry_delay), then the next round of the loop
\* (main-backup1.py:976)
SleepBeforeRetry ==
    /\ rt_pc = "sleep"
    /\ rt_trace' = Append(rt_trace, [ev |-> "sleep", ok |-> TRUE, val |-> rt_retry_delay])
    /\ rt_attempt' = rt_attempt + 1
    /\ rt_pc' = "for"
    /\ UNCHANGED <<rt_max_retries, rt_retry_delay, rt_page_num, rt_ret>>
    /\ UNCHANGED retryFrame

NextRetry ==
    \/ ForAttempt
    \/ ForExhausted
    \/ AttemptReturns
    \/ AttemptRaises
    \/ ConversionRaises
    \/ SleepBeforeRetry

SpecRetry == InitRetry /\ [][NextRetry]_vars

Attempts == { i \in 1..Len(rt_trace) : rt_trace[i].ev = "attempt" }

Failures == { i \in Attempts : ~rt_trace[i].ok }

Sleeps == { i \in 1..Len(rt_trace) : rt_trace[i].ev = "sleep" }

\* C20: process_page is attempted at most max_retries times; a successful
\* attempt is the last one and its result is returned; the exception is
\* raised to the caller only when max_retries attempts have failed, none
\* having succeeded; every sleep of retry_delay follows a failed attempt and
\* is followed by another attempt, so none comes after the last attempt.
C20_BoundedRetry ==
    /\ Cardinality(Attempts) <= rt_max_retries
    /\ \A i \in Attempts \ Failures :
          /\ i = Len(rt_trace)
          /\ rt_pc = "returned"
          /\ rt_ret = Return(rt_trace[i].val)
    /\ rt_pc = "returned" =>
          \/ Attempts \ Failures # {}
          \/ rt_max_retries = 0 /\ rt_trace = <<>> /\ rt_ret = Return(PyNone)
    /\ rt_pc = "raised" =>
          /\ Attempts = Failures
          /\ Cardinality(Failures) = rt_max_retries
          /\ rt_ret = Raise(rt_trace[Len(rt_trace)].val)
    /\ \A i \in Sleeps :
          /\ rt_trace[i].val = rt_retry_delay
          /\ i - 1 \in Failures
          /\ i < Len(rt_trace) => i + 1 \in Attempts
          /\ i = Len(rt_trace) =>
                rt_pc \in {"for", "try"} /\ in_range(rt_attempt, rt_max_retries)

\* the third attempt fails too: two sleeps, then the exception
C20_Witness ==
    /\ rt_pc = "raised"
    /\ rt_max_retries = 3
    /\ Cardinality(Failures) = 3
    /\ Cardinality(Sleeps) = 2
    /\ rt_trace[Len(rt_trace)].ev = "attempt"

\* the second attempt of three succeeds: one sleep, no third attempt
C20_WitnessSuccess ==
    /\ rt_pc = "returned"
    /\ rt_max_retries = 3
    /\ Len(rt_trace) = 3
    /\ Failures = {1}
    /\ Sleeps = {2}
    /\ rt_ret = Return(rt_trace[3].val)

ConversionFailures == { i \in Failures : rt_trace[i].val \in ConversionErrors }

\* C21: a failure of the conversion of a returned OCR document is not
\* retried: the attempt it ends is the last one and the page has failed.
C21_ConversionNotRetried ==
    \A i \in ConversionFailures : i = Len(rt_trace) /\ rt_pc = "raised"

\* Failures of the OCR call are retried while attempts remain.
C21_OcrFailureRetried ==
    \A i \in Failures \ ConversionFailures :
        (i = Len(rt_trace) /\ ~last_retry(rt_attempt, rt_max_retries)) => rt_pc = "sleep"

(***************************************************************************)
(* A run of the "Process Document" handler of main (main.py:1320-1372):    *)
(* the document is processed, the JSON is saved, then the workbook, then   *)
(* the session is marked complete; one try covers all of it.  mn_world     *)
(* holds what the outside answers: whether the processing raises, and for  *)
(* each artifact whether its upload raises.                                *)
(***************************************************************************)
Artifacts == {"json", "xlsx"}

Worlds ==
    [process_ok : BOOLEAN,
     upload_ok : [Artifacts -> BOOLEAN],
     was_complete : BOOLEAN,
     stored : SUBSET Artifacts]

InitRun ==
    /\ mn_world \in Worlds
    /\ mn_pc = "button"
    /\ mn_storage = mn_world.stored
    /\ mn_errors = <<>>
    /\ processing_complete = mn_world.was_complete
    /\ mn_exc = ""
    /\ LookupIdle
    /\ SectionIdle
    /\ PagesIdle
    /\ AddressIdle
    /\ PersonIdle
    /\ LinkIdle
    /\ DriverIdle
    /\ TreeIdle
    /\ CheckboxIdle
    /\ GeocodeIdle
    /\ SheetsIdle
    /\ RetryIdle
    /\ PathIdle
    /\ SeatIdle
    /\ PoolIdle
    /\ OrderIdle
    /\ OtherIdle
    /\ RunsIdle
    /\ CleanupIdle

\* main.py:1322-1349: the flag is cleared and the document processed
ProcessDocument ==
    /\ mn_pc = "button"
    /\ processing_complete' = FALSE
    /\ IF mn_world.process_ok
       THEN mn_pc' = "save_json" /\ mn_exc' = mn_exc
       ELSE mn_pc' = "except" /\ mn_exc' = "process_document_page_by_page"
    /\ UNCHANGED <<mn_world, mn_storage, mn_errors>>
    /\ UNCHANGED runFrame

\* save_to_gcs_as_json (main.py:1351-1357, 1227-1253): the upload writes
\* the blob, or raises, which the function shows and raises again
SaveJson ==
    /\ mn_pc = "save_json"
    /\ IF mn_world.upload_ok["json"]
       THEN /\ mn_storage' = mn_storage \cup {"json"}
            /\ mn_pc' = "save_excel"
            /\ UNCHANGED <<mn_errors, mn_exc>>
       ELSE /\ mn_errors' = Append(mn_errors, "Error saving JSON to GCS")
            /\ mn_exc' = "json"
            /\ mn_pc' = "except"
            /\ UNCHANGED mn_storage
    /\ UNCHANGED <<mn_world, processing_complete>>
    /\ UNCHANGED runFrame

\* save_excel_to_gcs (main.py:1359-1365, 781-801)
SaveExcel ==
    /\ mn_pc = "save_excel"
    /\ IF mn_world.upload_ok["xlsx"]
       THEN /\ mn_storage' = mn_storage \cup {"xlsx"}
            /\ mn_pc' = "complete"
            /\ UNCHANGED <<mn_errors, mn_exc>>
       ELSE /\ mn_errors' = Append(mn_errors, "Excel Save Error")
            /\ mn_exc' = "xlsx"
            /\ mn_pc' = "except"
            /\ UNCHANGED mn_storage
    /\ UNCHANGED <<mn_world, processing_complete>>
    /\ UNCHANGED runFrame

\* main.py:1367-1372
MarkComplete ==
    /\ mn_pc = "complete"
    /\ processing_complete' = TRUE
    /\ mn_pc' = "done"
    /\ UNCHANGED <<mn_world, mn_storage, mn_errors, mn_exc>>
    /\ UNCHANGED runFrame

\* except Exception as e (main.py:1374-1376)
ExceptProcessing ==
    /\ mn_pc = "except"
    /\ mn_errors' = Append(mn_errors, "Error processing document")
    /\ processing_complete' = FALSE
    /\ mn_pc' = "done"
    /\ UNCHANGED <<mn_world, mn_storage, mn_exc>>
    /\ UNCHANGED runFrame

NextRun ==
    \/ ProcessDocument
    \/ SaveJson
    \/ SaveExcel
    \/ MarkComplete
    \/ ExceptProcessing

SpecRun == InitRun /\ [][NextRun]_vars

\* the artifacts of this run's writes: nothing of them was in storage
FreshRun == mn_world.stored = {} /\ mn_world.process_ok

\* C22: at the end of a run whose document was processed, a failed write
\* has been shown, an artifact written is in storage, each artifact is in
\* storage exactly when its own upload does not fail, whatever the other
\* does, and the run is marked complete only when both are in storage.
C22_IndependentWrites ==
    (mn_pc = "done" /\ FreshRun) =>
        /\ \A a \in Artifacts : (a \in mn_storage) <=> mn_world.upload_ok[a]
        /\ mn_exc # "" => mn_errors # <<>>
        /\ processing_complete => mn_storage = Artifacts

\* What holds of the independence: no rollback, failures shown, and the
\* flag set only after both writes.
C22_NoRollbackAndFlag ==
    (mn_pc = "done" /\ FreshRun) =>
        /\ mn_world.upload_ok["json"] => "json" \in mn_storage
        /\ mn_exc # "" => mn_errors # <<>>
        /\ processing_complete <=> mn_storage = Artifacts

(***************************************************************************)
(* Blob paths: the path under which upload_to_gcs, save_excel_to_gcs and   *)
(* save_to_gcs_as_json of src/main.py store a blob.  Strings are sequences *)
(* of one-character strings.                                               *)
(***************************************************************************)
\* str.replace(old, new) for a non-empty old: the occurrences of old are
\* taken from the left, none overlapping the one before, and the text put
\* in is not looked at again.
RECURSIVE replace_all(_, _, _)
replace_all(cs, old, new) ==
    IF Len(cs) < Len(old) THEN cs
    ELSE IF SubSeq(cs, 1, Len(old)) = old
    THEN new \o replace_all(SubSeq(cs, Len(old) + 1, Len(cs)), old, new)
    ELSE <<cs[1]>> \o replace_all(Tail(cs), old, new)

\* sep.join(parts)
RECURSIVE join_parts(_, _)
join_parts(sep, parts) ==
    IF parts = <<>> THEN <<>>
    ELSE IF Len(parts) = 1 THEN parts[1]
    ELSE parts[1] \o sep \o join_parts(sep, Tail(parts))

Slash == <<"/">>

\* f"{prefix}/{name}" if prefix else name, then .replace('//', '/')
\* (main.py:223-224, 785-786, 1237-1238)
prefixed_path(prefix, name) ==
    replace_all(IF prefix # <<>> THEN prefix \o Slash \o name ELSE name,
                <<"/", "/">>, Slash)

\* upload_to_gcs (main.py:207-224): the path parts of the bucket name go in
\* front of the prefix
upload_blob_path(bucket_name, prefix, destination_blob_name) ==
    LET bucket_parts == split(replace_all(bucket_name, <<"g", "s", ":", "/", "/">>, <<>>), "/")
        additional_path == join_parts(Slash, Tail(bucket_parts))
        prefix_ == IF Len(bucket_parts) > 1
                   THEN IF prefix # <<>> THEN additional_path \o Slash \o prefix
                        ELSE additional_path
                   ELSE prefix
    IN  prefixed_path(prefix_, destination_blob_name)

\* save_excel_to_gcs (main.py:785-786)
excel_blob_path(prefix, filename) == prefixed_path(prefix, filename)

\* save_to_gcs_as_json (main.py:1236-1238)
json_blob_path(prefix, filename) ==
    prefixed_path(prefix,
                  replace_all(filename, <<".", "x", "l", "s", "x">>,
                              <<".", "j", "s", "o", "n">>))

MaxPathLen == 3

Words(chars, lo, hi) == UNION { [1..n -> chars] : n \in lo..hi }

Prefixes == Words({"p", "/"}, 0, MaxPathLen)

Filenames == Words({"f", "/"}, 1, MaxPathLen - 1) \cup {<<"f", ".", "x", "l", "s", "x">>}

BucketNames ==
    { <<"b">>, <<"g", "s", ":", "/", "/", "b">>, <<"b", "/", "x">>, <<"b", "/", "/", "x">> }

PathOperations == {"upload_to_gcs", "save_excel_to_gcs", "save_to_gcs_as_json"}

InitPath ==
    /\ bp_operation \in PathOperations
    /\ bp_bucket_name \in BucketNames
    /\ bp_prefix \in Prefixes
    /\ bp_filename \in Filenames
    /\ bp_pc = "call"
    /\ full_blob_path = <<>>
    /\ LookupIdle
    /\ SectionIdle
    /\ PagesIdle
    /\ AddressIdle
    /\ PersonIdle
    /\ LinkIdle
    /\ DriverIdle
    /\ TreeIdle
    /\ CheckboxIdle
    /\ GeocodeIdle
    /\ SheetsIdle
    /\ RetryIdle
    /\ RunIdle
    /\ SeatIdle
    /\ PoolIdle
    /\ OrderIdle
    /\ OtherIdle
    /\ RunsIdle
    /\ CleanupIdle

BuildBlobPath ==
    /\ bp_pc = "call"
    /\ full_blob_path' =
          CASE bp_operation = "upload_to_gcs" ->
                  upload_blob_path(bp_bucket_name, bp_prefix, bp_filename)
            [] bp_operation = "save_excel_to_gcs" ->
                  excel_blob_path(bp_prefix, bp_filename)
            [] bp_operation = "save_to_gcs_as_json" ->
                  json_blob_path(bp_prefix, bp_filename)
    /\ bp_pc' = "done"
    /\ UNCHANGED <<bp_operation, bp_bucket_name, bp_prefix, bp_filename>>
    /\ UNCHANGED pathFrame

NextPath == BuildBlobPath

SpecPath == InitPath /\ [][NextPath]_vars

\* C23: the blob path built by the upload and save operations holds no "//".
C23_NoDoubleSlash ==
    bp_pc = "done" => ~contains(full_blob_path, <<"/", "/">>)

\* The path is the joined prefix and name with each pair of slashes, taken
\* from the left, made one: a run of two slashes is collapsed.
C23_PairsCollapsed ==
    (bp_pc = "done" /\ bp_operation = "save_excel_to_gcs"
        /\ ~contains(bp_prefix \o Slash \o bp_filename, <<"/", "/", "/">>)) =>
        ~contains(full_blob_path, <<"/", "/">>)

(***************************************************************************)
(* The rows of the workbook sheets.                                        *)
(***************************************************************************)
Columns == {"Page", "Level", "Type", "Value", "Confidence"}

Levels == {"Parent", "Child", "Entity", "Person Header", "Section Header", "Separator"}

\* the rows save_excel_to_gcs has put on the location sheets and the rows
\* extract_person_description has returned
WrittenRows ==
    UNION { {addr_sheets[s][r] : r \in 1..Len(addr_sheets[s])} : s \in 1..Len(addr_sheets) }
    \cup {pd_child_rows[r] : r \in 1..Len(pd_child_rows)}

\* C24: every row written to a sheet has exactly the columns Page, Level,
\* Type, Value, Confidence and a Level among Parent, Child, Entity, Person
\* Header, Section Header, Separator.
C24_RowShape ==
    \A row \in WrittenRows : DOMAIN row = Columns /\ row.Level \in Levels

\* The columns alone, and the levels the code does write.
C24_ColumnsAndWrittenLevels ==
    \A row \in WrittenRows :
        /\ DOMAIN row = Columns
        /\ row.Level \in {"Section Header", "Separator", "Field", "child"}

(***************************************************************************)
(* Passenger order: process_person_data of src/main-backup1.py on a unit   *)
(* whose persons carry a person_seat_position entity, and some of them a   *)
(* short person_description.                                               *)
(***************************************************************************)
MaxPassengers == 3

SeatCodes == {"1", "3"}

seated_person(k, code, seat, described) ==
    [value |-> ToStr(k),
     entities |-> << [type |-> "person_name", value |-> "P" \o ToStr(k)],
                     [type |-> "person_type", value |-> code],
                     [type |-> "person_seat_position", value |-> seat] >>
                  \o (IF described
                      THEN << [type |-> "person_description", value |-> <<"A", "30">>] >>
                      ELSE <<>>)]

InitSeat ==
    /\ \E n \in 1..MaxPassengers :
          \E codes \in [1..n -> {"1", "2"}], seats \in [1..n -> SeatCodes],
             described \in [1..n -> BOOLEAN] :
              se_persons = [k \in 1..n |-> seated_person(k, codes[k], seats[k], described[k])]
    /\ se_pc = "call"
    /\ se_processed = <<>>
    /\ LookupIdle
    /\ SectionIdle
    /\ PagesIdle
    /\ AddressIdle
    /\ PersonIdle
    /\ LinkIdle
    /\ DriverIdle
    /\ TreeIdle
    /\ CheckboxIdle
    /\ GeocodeIdle
    /\ SheetsIdle
    /\ RetryIdle
    /\ RunIdle
    /\ PathIdle
    /\ PoolIdle
    /\ OrderIdle
    /\ OtherIdle
    /\ RunsIdle
    /\ CleanupIdle

ProcessSeatedPersons ==
    /\ se_pc = "call"
    /\ se_processed' = process_person_data(vehicle_with(se_persons))
    /\ se_pc' = "returned"
    /\ UNCHANGED se_persons
    /\ UNCHANGED seatFrame

NextSeat == ProcessSeatedPersons

SpecSeat == InitSeat /\ [][NextSeat]_vars

\* the place in the document of the person of a processed entry, and the
\* person's seat position there
Appearance(info) ==
    CHOOSE k \in 1..Len(se_persons) : PersonName(se_persons[k]) = info["name"]

SeatOf(info) == first_value(se_persons[Appearance(info)].entities, "person_seat_position", "")

\* the seat positions of the specification are in the order of their
\* descriptions ("Front Left ..." before "Front Right")
seat_le(a, b) == a = b \/ str_lt(a, b)

\* C25: the passengers of a unit are output in the order of their seat
\* positions, and passengers with equal seat position in their order of
\* appearance in the document.
C25_PassengersBySeat ==
    se_pc = "returned" =>
        \A i, j \in 1..Len(se_processed.passengers) :
            i < j =>
                LET a == se_processed.passengers[i]
                    b == se_processed.passengers[j]
                IN  /\ seat_le(SeatOf(a), SeatOf(b))
                    /\ SeatOf(a) = SeatOf(b) => Appearance(a) < Appearance(b)

\* The passengers are output in their order of appearance.
C25_PassengersByAppearance ==
    se_pc = "returned" =>
        \A i, j \in 1..Len(se_processed.passengers) :
            i < j => Appearance(se_processed.passengers[i])
                        < Appearance(se_processed.passengers[j])

(***************************************************************************)
(* The worker pool of process_document_page_by_page (main.py:1021-1036)    *)
(* for documents of more pages than the pool has workers.  The executor    *)
(* is ThreadPoolExecutor(max_workers): submit puts the page on the         *)
(* executor's queue, a worker thread takes the oldest queued page when it  *)
(* is free, and there are never more than max_workers threads.             *)
(***************************************************************************)
MaxPoolPages == 12

InitPool ==
    /\ pl_total \in 1..MaxPoolPages
    /\ pl_pc = "submit"
    /\ pl_submits = [i \in 1..pl_total |-> 0]
    /\ pl_state = [i \in 1..pl_total |-> "unsubmitted"]
    /\ LookupIdle
    /\ SectionIdle
    /\ PagesIdle
    /\ AddressIdle
    /\ PersonIdle
    /\ LinkIdle
    /\ DriverIdle
    /\ TreeIdle
    /\ CheckboxIdle
    /\ GeocodeIdle
    /\ SheetsIdle
    /\ RetryIdle
    /\ RunIdle
    /\ PathIdle
    /\ SeatIdle
    /\ OrderIdle
    /\ OtherIdle
    /\ RunsIdle
    /\ CleanupIdle

InPool(state) == {i \in 1..pl_total : pl_state[i] = state}

\* the next round of the dict comprehension over enumerate(page_files, 1):
\* executor.submit for the first page not yet submitted (main.py:1028-1036)
PoolSubmit ==
    /\ pl_pc = "submit"
    /\ \E i \in InPool("unsubmitted") :
          /\ \A j \in InPool("unsubmitted") : i <= j
          /\ pl_submits' = [pl_submits EXCEPT ![i] = @ + 1]
          /\ pl_state' = [pl_state EXCEPT ![i] = "queued"]
    /\ UNCHANGED <<pl_total, pl_pc>>
    /\ UNCHANGED poolFrame

\* the comprehension is over
PoolSubmitted ==
    /\ pl_pc = "submit"
    /\ InPool("unsubmitted") = {}
    /\ pl_pc' = "collect"
    /\ UNCHANGED <<pl_total, pl_submits, pl_state>>
    /\ UNCHANGED poolFrame

\* a worker thread takes the oldest queued page and calls process_page
PoolWorkerTakes ==
    /\ Cardinality(InPool("running")) < max_workers(pl_total)
    /\ \E i \in InPool("queued") :
          /\ \A j \in InPool("queued") : i <= j
          /\ pl_state' = [pl_state EXCEPT ![i] = "running"]
    /\ UNCHANGED <<pl_total, pl_pc, pl_submits>>
    /\ UNCHANGED poolFrame

\* process_page of page i returns or raises: the worker is free again
PoolWorkerDone(i) ==
    /\ pl_state[i] = "running"
    /\ pl_state' = [pl_state EXCEPT ![i] = "done"]
    /\ UNCHANGED <<pl_total, pl_pc, pl_submits>>
    /\ UNCHANGED poolFrame

\* every future has completed and the with block is left
PoolShutdown ==
    /\ pl_pc = "collect"
    /\ InPool("done") = 1..pl_total
    /\ pl_pc' = "returned"
    /\ UNCHANGED <<pl_total, pl_submits, pl_state>>
    /\ UNCHANGED poolFrame

NextPool ==
    \/ PoolSubmit
    \/ PoolSubmitted
    \/ PoolWorkerTakes
    \/ \E i \in 1..pl_total : PoolWorkerDone(i)
    \/ PoolShutdown

SpecPool == InitPool /\ [][NextPool]_vars

Min(a, b) == IF a < b THEN a ELSE b

\* C26: at every moment at most min(10, N) pages are being processed by
\* workers; no page is submitted twice, and once the submitting loop is
\* over every one of the N pages has been submitted exactly once.
C26_BoundedConcurrency ==
    /\ Cardinality(InPool("running")) <= Min(WorkerCap, pl_total)
    /\ \A i \in 1..pl_total : pl_submits[i] <= 1
    /\ pl_pc \in {"collect", "returned"} => \A i \in 1..pl_total : pl_submits[i] = 1

\* ten pages of twelve are being processed and the other two wait
C26_Witness ==
    /\ pl_total = 12
    /\ Cardinality(InPool("running")) = WorkerCap
    /\ Cardinality(InPool("queued")) = 2
    /\ pl_pc = "collect"

(***************************************************************************)
(* Section assignment and the order of main_sections: _get_entity_section  *)
(* (main.py:318-334) run over a reordered list of the section names, with  *)
(* the findings of its two passes kept apart.                              *)
(***************************************************************************)
\* `for section in sections: if cs.startswith(section): return section`
first_section_in(sections, cs) ==
    LET hits == {i \in 1..Len(sections) : startswith(cs, sections[i])}
    IN  IF hits = {} THEN NoSection
        ELSE sections[CHOOSE i \in hits : \A j \in hits : i <= j]

\* _get_entity_section over the list sections: what the direct pass finds,
\* what the pass over the part before the first slash finds when it runs
\* or would run, and what is returned
entity_section_in(sections, entity_type) ==
    LET entity_type_lower == lower(entity_type)
        direct == first_section_in(sections, entity_type_lower)
        nested == IF \E i \in 1..Len(entity_type_lower) : entity_type_lower[i] = "/"
                  THEN first_section_in(sections, split_first(entity_type_lower, "/"))
                  ELSE NoSection
    IN  [direct |-> direct, nested |-> nested,
         section |-> IF direct # NoSection THEN direct ELSE nested]

Rotate(s, k) == [i \in 1..Len(s) |-> s[((i + k - 1) % Len(s)) + 1]]

Reverse(s) == [i \in 1..Len(s) |-> s[Len(s) + 1 - i]]

\* the orderings of main_sections tried: its rotations and their reversals
Orderings ==
    {Rotate(main_sections, k) : k \in 0..(Len(main_sections) - 1)}
    \cup {Reverse(Rotate(main_sections, k)) : k \in 0..(Len(main_sections) - 1)}

\* what may follow the beginning of a section name in a type
TypeEndings ==
    { <<>>, <<"_", "x">>, <<"/">> \o S_cmv, <<"/">> \o S_charges \o <<"/", "x">> }

\* the entity types tried: every beginning of every section name with
\* every ending, the same behind "x/", and the sample types
OrderTypes ==
    UNION { UNION { { SubSeq(s, 1, k) \o ending,
                      <<"x", "/">> \o SubSeq(s, 1, k) \o ending } :
                    k \in 0..Len(s), ending \in TypeEndings } :
            s \in SectionNames }
    \cup SampleTypes

InitOrder ==
    /\ so_sections \in Orderings
    /\ so_entity_type \in OrderTypes
    /\ so_pc = "call"
    /\ so_ret = <<>>
    /\ LookupIdle
    /\ SectionIdle
    /\ PagesIdle
    /\ AddressIdle
    /\ PersonIdle
    /\ LinkIdle
    /\ DriverIdle
    /\ TreeIdle
    /\ CheckboxIdle
    /\ GeocodeIdle
    /\ SheetsIdle
    /\ RetryIdle
    /\ RunIdle
    /\ PathIdle
    /\ SeatIdle
    /\ PoolIdle
    /\ OtherIdle
    /\ RunsIdle
    /\ CleanupIdle

GetEntitySection ==
    /\ so_pc = "call"
    /\ so_ret' = entity_section_in(so_sections, so_entity_type)
    /\ so_pc' = "returned"
    /\ UNCHANGED <<so_sections, so_entity_type>>
    /\ UNCHANGED orderFrame

NextOrder == GetEntitySection

SpecOrder == InitOrder /\ [][NextOrder]_vars

\* the section names that begin the type
PrefixSections(entity_type) ==
    {s \in SectionNames : startswith(lower(entity_type), s)}

\* C27: no section name is a prefix of another; at most one section name
\* is a prefix of a type; _get_entity_section over any ordering of
\* main_sections returns what it returns over main_sections; and the pass
\* over the part before the slash finds nothing when the direct pass found
\* nothing.
C27_OrderIndependent ==
    so_pc = "returned" =>
        /\ \A s1, s2 \in SectionNames : s1 # s2 => ~startswith(s1, s2)
        /\ Cardinality(PrefixSections(so_entity_type)) <= 1
        /\ so_ret.section = _get_entity_section(so_entity_type)
        /\ so_ret.direct = NoSection => so_ret.nested = NoSection

\* "cmv/charges/x" over the reversed list: the direct pass finds cmv, and so
\* does the pass over "cmv"
C27_Witness ==
    /\ so_pc = "returned"
    /\ so_sections = Reverse(main_sections)
    /\ so_entity_type = S_cmv \o <<"/">> \o S_charges \o <<"/", "x">>
    /\ so_ret.section = S_cmv
    /\ so_ret.nested = S_cmv

\* "x/charges" has a section name behind the slash and none in front: no
\* pass finds a section
C27_WitnessUnmatched ==
    /\ so_pc = "returned"
    /\ so_entity_type = T_x_charges
    /\ so_ret.section = NoSection

(***************************************************************************)
(* Sections other than identification_location and vehicle_driver_persons  *)
(* in save_excel_to_gcs (main.py:722-779).  The branch reads two local     *)
(* variables of the function it does not assign: eligible_geocoding,       *)
(* assigned where a location or a unit is rendered (main.py:447, 612), and *)
(* person_idx, the variable of the loop over a unit's persons              *)
(* (main.py:630).  A local variable read before any assignment raises      *)
(* UnboundLocalError.                                                      *)
(***************************************************************************)
\* the two local variables before the first page: neither is assigned
NoLocals == [assigned |-> {}, eligible_geocoding |-> {}, person_idx |-> 0]

\* what rendering a location record, or a unit with the given number of
\* persons, leaves in the local variables
after_section(locals, section) ==
    IF section.type = "identification_location"
    THEN [locals EXCEPT !.assigned = @ \cup {"eligible_geocoding"},
                        !.eligible_geocoding = {"country_name"}]
    ELSE IF section.persons > 0
    THEN [assigned |-> {"eligible_geocoding", "person_idx"},
          eligible_geocoding |-> {"address", "owner_address"},
          person_idx |-> section.persons]
    ELSE [locals EXCEPT !.assigned = @ \cup {"eligible_geocoding"},
                        !.eligible_geocoding = {"address", "owner_address"}]

after_sections(earlier) ==
    FoldLeft(LAMBDA locals, section : after_section(locals, section), NoLocals, earlier)

other_row(page_num, level, type, value, confidence) ==
    [Page |-> page_num, Level |-> level, Type |-> type, Value |-> value,
     Confidence |-> confidence]

\* the rows of one entity of a child entry (main.py:766-774), or the
\* exception of reading person_idx
entity_rows(locals, page_num, entity) ==
    IF "person_idx" \notin locals.assigned THEN Raise("UnboundLocalError")
    ELSE Return(<< other_row(page_num, "Entity",
                             Str(replace_all(entity.type, <<"_">>,
                                             <<ToStr(locals.person_idx), "_">>)),
                             match_string_for_boolean(Str(entity.type), entity.value),
                             format_pct(entity.confidence)) >>)

\* rows, then the rows of ret unless an exception is under way
then_rows(acc, ret) ==
    IF acc.exc # "" THEN acc
    ELSE IF ret.exc # "" THEN ret
    ELSE Return(acc.ret \o ret.ret)

\* the rows of one child entry (main.py:742-774)
child_entry_rows(locals, page_num, child_type, entry) ==
    LET child_row_ == << other_row(page_num, "Child", child_type,
                                   match_string_for_boolean(child_type, entry.value),
                                   format_pct(entry.confidence)) >>
        geocoded ==
            IF "eligible_geocoding" \notin locals.assigned THEN Raise("UnboundLocalError")
            ELSE IF child_type \in locals.eligible_geocoding
            THEN LET geocode_res == geocoding_call(<<"geocoding", child_type,
                                                     entry.value>>, 200, 0)
                 IN  IF geocode_res.exc # "" THEN geocode_res ELSE Return(<<>>)
            ELSE Return(<<>>)
    IN  FoldLeft(LAMBDA acc, entity : then_rows(acc, entity_rows(locals, page_num, entity)),
                 then_rows(Return(child_row_), geocoded),
                 entry.entities)

\* the rows of the section's sheet for one parent entity (main.py:731-774)
other_section_rows(locals, page_num, parent_type, parent_entity) ==
    FoldLeft(LAMBDA acc, child :
                FoldLeft(LAMBDA acc2, entry :
                            IF acc2.exc # "" THEN acc2
                            ELSE then_rows(acc2, child_entry_rows(locals, page_num,
                                                                 child.type, entry)),
                         acc, child.entries),
             Return(<< other_row(page_num, "Parent", parent_type, parent_entity.value,
                                 format_pct(parent_entity.confidence)) >>),
             parent_entity.child_fields)

(***************************************************************************)
(* The specification: a charges record with one child entry, with or       *)
(* without an entity, rendered after two histories of up to MaxEarlier     *)
(* sections each.                                                          *)
(***************************************************************************)
MaxEarlier == 2

MaxRenderedPersons == 2

EarlierSections ==
    { [type |-> "identification_location", persons |-> 0] }
    \cup { [type |-> "vehicle_driver_persons", persons |-> n] : n \in 0..MaxRenderedPersons }

Histories == UNION { [1..n -> EarlierSections] : n \in 0..MaxEarlier }

OtherChildTypes == {"charge", "country_name", "address"}

charges_record(child_type, with_entity) ==
    [value |-> <<"a">>, confidence |-> 95,
     child_fields |->
        << [type |-> child_type,
            entries |-> << [value |-> <<"b">>, confidence |-> 95,
                            entities |-> IF with_entity
                                         THEN << [type |-> <<"c", "_", "d">>,
                                                  value |-> <<"e">>,
                                                  confidence |-> 95] >>
                                         ELSE <<>>] >>] >>]

InitOther ==
    /\ ot_earlier \in Histories \X Histories
    /\ \E child_type \in OtherChildTypes, with_entity \in BOOLEAN :
          ot_parent_entity = charges_record(child_type, with_entity)
    /\ ot_pc = "call"
    /\ ot_ret = <<>>
    /\ LookupIdle
    /\ SectionIdle
    /\ PagesIdle
    /\ AddressIdle
    /\ PersonIdle
    /\ LinkIdle
    /\ DriverIdle
    /\ TreeIdle
    /\ CheckboxIdle
    /\ GeocodeIdle
    /\ SheetsIdle
    /\ RetryIdle
    /\ RunIdle
    /\ PathIdle
    /\ SeatIdle
    /\ PoolIdle
    /\ OrderIdle
    /\ RunsIdle
    /\ CleanupIdle

\* the charges section rendered after each of the two histories
RenderOtherSection ==
    /\ ot_pc = "call"
    /\ ot_ret' = [h \in 1..2 |->
                    other_section_rows(after_sections(ot_earlier[h]), 1, "charges",
                                       ot_parent_entity)]
    /\ ot_pc' = "returned"
    /\ UNCHANGED <<ot_earlier, ot_parent_entity>>
    /\ UNCHANGED otherFrame

NextOther == RenderOtherSection

SpecOther == InitOther /\ [][NextOther]_vars

\* C28: rendering a section other than the locations and the units
\* completes without error and gives the same rows whatever was rendered
\* before it in the call, nothing included.
C28_IndependentOfEarlier ==
    ot_pc = "returned" =>
        /\ \A h \in 1..2 : ot_ret[h].exc = ""
        /\ ot_ret[1].ret = ot_ret[2].ret

\* What holds: a record without entities whose child type no list of
\* eligible types holds gives the same rows after any history in which a
\* location or a unit was rendered.
C28_AfterSomeSection ==
    (/\ ot_pc = "returned"
     /\ ot_parent_entity = charges_record("charge", FALSE)
     /\ \A h \in 1..2 : ot_earlier[h] # <<>>) =>
        /\ \A h \in 1..2 : ot_ret[h].exc = ""
        /\ ot_ret[1].ret = ot_ret[2].ret

(***************************************************************************)
(* Two runs in one working directory.  Each run splits its document into   *)
(* page_splits/page_<i>.pdf (main.py:40-53, 81-96), reads each page file   *)
(* and sends it to the OCR (main.py:156-158), removes the page files       *)
(* (main.py:1136-1141), writes temp_output.xlsx, uploads it and removes it *)
(* (main.py:420, 781-792).  The file names do not depend on the run.       *)
(***************************************************************************)
RunIds == {1, 2}

MaxDocPages == 2

\* os.path.join(self.output_dir, f'page_{page_num + 1}.pdf')  (main.py:86-89)
output_path(page_num) == "page_splits/page_" \o ToStr(page_num + 1) \o ".pdf"

TempWorkbook == "temp_output.xlsx"

Paths == {output_path(i) : i \in 0..(MaxDocPages - 1)} \cup {TempWorkbook}

NoFile == [run |-> 0, page |-> 0]

\* what run r writes for page i of its document (page 0: its workbook)
Content(r, i) == [run |-> r, page |-> i]

\* the harm a write or a removal at path does, by run r, to a file another
\* run wrote
harm(r, path) ==
    IF iso_files[path].run \notin {0, r}
    THEN {[by |-> r, of |-> iso_files[path].run, path |-> path]}
    ELSE {}

InitRuns ==
    /\ iso_total \in [RunIds -> 1..MaxDocPages]
    /\ iso_pc = [r \in RunIds |-> [at |-> "split", i |-> 1]]
    /\ iso_files = [path \in Paths |-> NoFile]
    /\ iso_sent = [r \in RunIds |-> <<>>]
    /\ iso_uploaded = [r \in RunIds |-> NoFile]
    /\ iso_harm = {}
    /\ LookupIdle
    /\ SectionIdle
    /\ PagesIdle
    /\ AddressIdle
    /\ PersonIdle
    /\ LinkIdle
    /\ DriverIdle
    /\ TreeIdle
    /\ CheckboxIdle
    /\ GeocodeIdle
    /\ SheetsIdle
    /\ RetryIdle
    /\ RunIdle
    /\ PathIdle
    /\ SeatIdle
    /\ PoolIdle
    /\ OrderIdle
    /\ OtherIdle
    /\ CleanupIdle

\* the position after step i of a loop over the run's pages
next_page(r, i, at, then) ==
    IF i < iso_total[r] THEN [at |-> at, i |-> i + 1] ELSE [at |-> then, i |-> 1]

\* split_pdf_pages writes the page file of page i (main.py:81-96)
SplitPage(r) ==
    /\ iso_pc[r].at = "split"
    /\ LET i == iso_pc[r].i
           path == output_path(i - 1)
       IN  /\ iso_files' = [iso_files EXCEPT ![path] = Content(r, i)]
           /\ iso_harm' = iso_harm \cup harm(r, path)
           /\ iso_pc' = [iso_pc EXCEPT ![r] = next_page(r, i, "split", "ocr")]
    /\ UNCHANGED <<iso_total, iso_sent, iso_uploaded>>
    /\ UNCHANGED runsFrame

\* process_page reads the page file of page i and sends its bytes to the
\* OCR (main.py:156-176); a missing file raises and nothing is sent
ReadPage(r) ==
    /\ iso_pc[r].at = "ocr"
    /\ LET i == iso_pc[r].i
       IN  /\ iso_sent' = [iso_sent EXCEPT ![r] = Append(@, iso_files[output_path(i - 1)])]
           /\ iso_pc' = [iso_pc EXCEPT ![r] = next_page(r, i, "ocr", "cleanup")]
    /\ UNCHANGED <<iso_total, iso_files, iso_uploaded, iso_harm>>
    /\ UNCHANGED runsFrame

\* os.remove(page_file) in the finally clause (main.py:1136-1141); the
\* removal of a missing file raises and is caught
RemovePage(r) ==
    /\ iso_pc[r].at = "cleanup"
    /\ LET i == iso_pc[r].i
           path == output_path(i - 1)
       IN  /\ iso_files' = [iso_files EXCEPT ![path] = NoFile]
           /\ iso_harm' = iso_harm \cup harm(r, path)
           /\ iso_pc' = [iso_pc EXCEPT ![r] = next_page(r, i, "cleanup", "write")]
    /\ UNCHANGED <<iso_total, iso_sent, iso_uploaded>>
    /\ UNCHANGED runsFrame

\* the ExcelWriter on 'temp_output.xlsx' is closed and the workbook is on
\* disk (main.py:420-779)
WriteWorkbook(r) ==
    /\ iso_pc[r].at = "write"
    /\ iso_files' = [iso_files EXCEPT ![TempWorkbook] = Content(r, 0)]
    /\ iso_harm' = iso_harm \cup harm(r, TempWorkbook)
    /\ iso_pc' = [iso_pc EXCEPT ![r] = [at |-> "upload", i |-> 1]]
    /\ UNCHANGED <<iso_total, iso_sent, iso_uploaded>>
    /\ UNCHANGED runsFrame

\* blob.upload_from_filename('temp_output.xlsx') (main.py:788-789); a
\* missing file raises and the except clause ends the call
UploadWorkbook(r) ==
    /\ iso_pc[r].at = "upload"
    /\ IF iso_files[TempWorkbook] = NoFile
       THEN /\ iso_pc' = [iso_pc EXCEPT ![r] = [at |-> "raised", i |-> 1]]
            /\ UNCHANGED iso_uploaded
       ELSE /\ iso_uploaded' = [iso_uploaded EXCEPT ![r] = iso_files[TempWorkbook]]
            /\ iso_pc' = [iso_pc EXCEPT ![r] = [at |-> "remove", i |-> 1]]
    /\ UNCHANGED <<iso_total, iso_files, iso_sent, iso_harm>>
    /\ UNCHANGED runsFrame

\* os.remove('temp_output.xlsx') (main.py:791-792); a missing file raises
RemoveWorkbook(r) ==
    /\ iso_pc[r].at = "remove"
    /\ IF iso_files[TempWorkbook] = NoFile
       THEN /\ iso_pc' = [iso_pc EXCEPT ![r] = [at |-> "raised", i |-> 1]]
            /\ UNCHANGED <<iso_files, iso_harm>>
       ELSE /\ iso_files' = [iso_files EXCEPT ![TempWorkbook] = NoFile]
            /\ iso_harm' = iso_harm \cup harm(r, TempWorkbook)
            /\ iso_pc' = [iso_pc EXCEPT ![r] = [at |-> "returned", i |-> 1]]
    /\ UNCHANGED <<iso_total, iso_sent, iso_uploaded>>
    /\ UNCHANGED runsFrame

NextRuns ==
    \/ \E r \in RunIds : SplitPage(r)
    \/ \E r \in RunIds : ReadPage(r)
    \/ \E r \in RunIds : RemovePage(r)
    \/ \E r \in RunIds : WriteWorkbook(r)
    \/ \E r \in RunIds : UploadWorkbook(r)
    \/ \E r \in RunIds : RemoveWorkbook(r)

SpecRuns == InitRuns /\ [][NextRuns]_vars

\* C29: what a run sends to the OCR for page i is page i of its own
\* document, the workbook it uploads is its own, and no run writes over or
\* removes a temporary file of the other.
C29_RunsIsolated ==
    /\ \A r \in RunIds :
          /\ \A i \in 1..Len(iso_sent[r]) : iso_sent[r][i] = Content(r, i)
          /\ iso_uploaded[r] \in {NoFile, Content(r, 0)}
          /\ iso_pc[r].at # "raised"
    /\ iso_harm = {}

\* A run that has the directory to itself, the other not having started,
\* is served its own pages and workbook.
C29_AloneIsIsolated ==
    \A r \in RunIds :
        (\A q \in RunIds \ {r} : iso_pc[q] = [at |-> "split", i |-> 1]) =>
            /\ \A i \in 1..Len(iso_sent[r]) : iso_sent[r][i] = Content(r, i)
            /\ iso_uploaded[r] \in {NoFile, Content(r, 0)}
            /\ iso_pc[r].at # "raised"

(***************************************************************************)
(* Cleanup of the page files in process_document_page_by_page with         *)
(* cleanup=True (main.py:1006-1143) and in split_pdf_pages                 *)
(* (main.py:71-110).  cl_world holds what the outside does: the number of  *)
(* pages, where the split fails if it does, what the worker pool comes to, *)
(* and the page files whose os.remove raises.  Page files are named by     *)
(* their page numbers.                                                     *)
(***************************************************************************)
MaxSplitPages == 3

\* the split fails at a page either before the page's file is opened
\* (add_page, open) or once it is open (pdf_writer.write)
SplitFailures ==
    { [page |-> 0, stage |-> "none"] }
    \cup { [page |-> k, stage |-> s] : k \in 1..MaxSplitPages, s \in {"before_open", "write"} }

\* the pool's part: the pages are processed, every page fails, or an
\* exception leaves the with block
PoolOutcomes == {"processed", "every_page_failed", "raise"}

CleanupWorlds ==
    { w \in [total : 1..MaxSplitPages, split : SplitFailures, pool : PoolOutcomes,
             remove_raises : SUBSET (1..MaxSplitPages)] :
        /\ w.split.page <= w.total
        /\ w.remove_raises \subseteq 1..w.total }

InitCleanup ==
    /\ cl_world \in CleanupWorlds
    /\ cl_pc = "split"
    /\ cl_page_files = <<>>
    /\ cl_created = {}
    /\ cl_on_disk = {}
    /\ cl_attempted = {}
    /\ cl_warnings = {}
    /\ cl_ret = <<>>
    /\ LookupIdle
    /\ SectionIdle
    /\ PagesIdle
    /\ AddressIdle
    /\ PersonIdle
    /\ LinkIdle
    /\ DriverIdle
    /\ TreeIdle
    /\ CheckboxIdle
    /\ GeocodeIdle
    /\ SheetsIdle
    /\ RetryIdle
    /\ RunIdle
    /\ PathIdle
    /\ SeatIdle
    /\ PoolIdle
    /\ OrderIdle
    /\ OtherIdle
    /\ RunsIdle

\* one round of the loop of split_pdf_pages (main.py:81-96): the page's
\* file is written and listed, or the round raises
SplitNextPage ==
    /\ cl_pc = "split"
    /\ Len(cl_page_files) < cl_world.total
    /\ LET k == Len(cl_page_files) + 1
       IN  IF cl_world.split.page = k
           THEN /\ cl_pc' = "split_except"
                /\ cl_page_files' = cl_page_files
                /\ IF cl_world.split.stage = "write"
                   THEN /\ cl_created' = cl_created \cup {k}
                        /\ cl_on_disk' = cl_on_disk \cup {k}
                   ELSE UNCHANGED <<cl_created, cl_on_disk>>
           ELSE /\ cl_pc' = "split"
                /\ cl_page_files' = Append(cl_page_files, k)
                /\ cl_created' = cl_created \cup {k}
                /\ cl_on_disk' = cl_on_disk \cup {k}
    /\ UNCHANGED <<cl_world, cl_attempted, cl_warnings, cl_ret>>
    /\ UNCHANGED cleanupFrame

\* os.remove(file) with a failure the caller catches
remove_file(k) ==
    [on_disk |-> IF k \in cl_world.remove_raises THEN cl_on_disk ELSE cl_on_disk \ {k},
     raised |-> k \in cl_world.remove_raises]

\* the except clause of split_pdf_pages (main.py:98-107): the listed files
\* are removed, failures passed over, and the exception raised again; it
\* leaves process_document_page_by_page, whose try has not begun
SplitExcept ==
    /\ cl_pc = "split_except"
    /\ cl_attempted' = cl_attempted \cup {cl_page_files[i] : i \in 1..Len(cl_page_files)}
    /\ cl_on_disk' = cl_on_disk \ ({cl_page_files[i] : i \in 1..Len(cl_page_files)}
                                    \ cl_world.remove_raises)
    /\ cl_ret' = Raise("split")
    /\ cl_pc' = "raised"
    /\ UNCHANGED <<cl_world, cl_page_files, cl_created, cl_warnings>>
    /\ UNCHANGED cleanupFrame

\* the split is over and the try block runs the pool to its end
\* (main.py:1021-1128)
RunPool ==
    /\ cl_pc = "split"
    /\ Len(cl_page_files) = cl_world.total
    /\ cl_ret' = IF cl_world.pool = "raise" THEN Raise("pool")
                 ELSE Return(cl_world.pool)
    /\ cl_pc' = "finally"
    /\ UNCHANGED <<cl_world, cl_page_files, cl_created, cl_on_disk, cl_attempted,
                   cl_warnings>>
    /\ UNCHANGED cleanupFrame

\* one round of `for page_file in page_files` in the finally clause
\* (main.py:1136-1141): the removal, and the warning when it raises
FinallyRemove ==
    /\ cl_pc = "finally"
    /\ \E i \in 1..Len(cl_page_files) :
          /\ cl_page_files[i] \notin cl_attempted
          /\ \A j \in 1..(i - 1) : cl_page_files[j] \in cl_attempted
          /\ cl_attempted' = cl_attempted \cup {cl_page_files[i]}
          /\ cl_on_disk' = remove_file(cl_page_files[i]).on_disk
          /\ cl_warnings' = IF remove_file(cl_page_files[i]).raised
                            THEN cl_warnings \cup {cl_page_files[i]}
                            ELSE cl_warnings
    /\ UNCHANGED <<cl_world, cl_pc, cl_page_files, cl_created, cl_ret>>
    /\ UNCHANGED cleanupFrame

\* the finally clause is over: the function returns its result or the
\* exception goes on (main.py:1143)
FinallyEnds ==
    /\ cl_pc = "finally"
    /\ \A i \in 1..Len(cl_page_files) : cl_page_files[i] \in cl_attempted
    /\ cl_pc' = IF cl_ret.exc = "" THEN "returned" ELSE "raised"
    /\ UNCHANGED <<cl_world, cl_page_files, cl_created, cl_on_disk, cl_attempted,
                   cl_warnings, cl_ret>>
    /\ UNCHANGED cleanupFrame

NextCleanup ==
    \/ SplitNextPage
    \/ SplitExcept
    \/ RunPool
    \/ FinallyRemove
    \/ FinallyEnds

SpecCleanup == InitCleanup /\ [][NextCleanup]_vars

\* the outcome the function has without any removal failing
ExpectedOutcome ==
    IF cl_world.split.stage # "none" THEN Raise("split")
    ELSE IF cl_world.pool = "raise" THEN Raise("pool")
    ELSE Return(cl_world.pool)

\* C30: when process_document_page_by_page returns or raises, the removal
\* of every page file the split created has been attempted, and the
\* result or exception is the one it has without removal failures.
C30_AlwaysCleanedUp ==
    cl_pc \in {"returned", "raised"} =>
        /\ cl_created \subseteq cl_attempted
        /\ cl_ret = ExpectedOutcome

\* The exits after a completed split: return, every page failing, and an
\* exception out of the pool.
C30_CleanedUpAfterSplit ==
    (cl_pc \in {"returned", "raised"} /\ cl_world.split.stage = "none") =>
        /\ cl_created \subseteq cl_attempted
        /\ cl_created = 1..cl_world.total
        /\ cl_on_disk = cl_world.remove_raises
        /\ cl_warnings = cl_world.remove_raises
        /\ cl_ret = ExpectedOutcome

Init ==
    \/ InitLookup \/ InitSection \/ InitPages \/ InitAddress \/ InitPerson \/ InitLink
    \/ InitDriver \/ InitTree \/ InitCheckbox \/ InitGeocode \/ InitSheets
    \/ InitRetry \/ InitRun \/ InitPath \/ InitSeat \/ InitPool \/ InitOrder
    \/ InitOther \/ InitRuns \/ InitCleanup

Next ==
    \/ NextLookup \/ NextSection \/ NextPages \/ NextAddress \/ NextPerson \/ NextLink
    \/ NextDriver \/ NextTree \/ NextCheckbox \/ NextGeocode \/ NextSheets
    \/ NextRetry \/ NextRun \/ NextPath \/ NextSeat \/ NextPool \/ NextOrder
    \/ NextOther \/ NextRuns \/ NextCleanup

Spec == Init /\ [][Next]_vars

=============================================================================
